---- MODULE Spec2Model ----
(***************************************************************************)
(* Model of the ICT signal pipeline of the repository:                     *)
(*   src/ict_strategies.py    pattern detectors                            *)
(*   src/ict_advanced.py      kill zones, CHOCH, premium/discount, HTF bias *)
(*   src/signal_generator.py  generate_signal and backtest_signal          *)
(*   src/main.py              the backtest tab's verdict banner            *)
(*                                                                         *)
(* A frame (pandas DataFrame) is a sequence of bars                        *)
(*   [ts, open, high, low, close, volume]                                  *)
(* with ts the bar's timestamp in whole hours (UTC).  Source indices are   *)
(* 0-based; Bar(df, i) is df.iloc[i].  Prices and volumes are integers;    *)
(* every comparison of a quotient with a decimal literal is carried out    *)
(* exactly by cross-multiplication, and a quotient that is kept in a       *)
(* result is kept as the pair <<numerator, denominator>>, so that          *)
(* x / 0 (numpy: inf or nan, never an exception) stays visible.            *)
(* Scores carry four decimals: a score s is held as s * ScoreScale.        *)
(***************************************************************************)
EXTENDS Integers, Sequences, FiniteSets, TLC

VARIABLES df, htf_df, signal_result, trace, previous,
          backtest_args, backtest_result, previous_backtest, banner,
          call, returned

vars == <<df, htf_df, signal_result, trace, previous,
          backtest_args, backtest_result, previous_backtest, banner,
          call, returned>>

\* Python's None where a result is expected
None == [type |-> "None"]

\* Python's None where a frame is expected
NoFrame == <<None>>

\* "no item" in a list of optional records, and "no index"
Nil == [type |-> "Nil"]

NoIndex == -1

(***************************************************************************)
(* Generic helpers: Python slices, max/min, abs, ranges.                   *)
(***************************************************************************)
Abs(x) == IF x < 0 THEN -x ELSE x

Max2(a, b) == IF a >= b THEN a ELSE b

Min2(a, b) == IF a <= b THEN a ELSE b

SetMax(S) == CHOOSE x \in S : \A y \in S : y <= x

SetMin(S) == CHOOSE x \in S : \A y \in S : x <= y

\* len(df)
Len0(d) == Len(d)

\* df.iloc[i], 0-based
Bar(d, i) == d[i + 1]

\* range(a, b) as a set
PyRange(a, b) == {i \in a..(b - 1) : TRUE}

\* seq[:n]
Head2(s, n) == SubSeq(s, 1, Min2(n, Len(s)))

\* seq[-n:]
LastN(s, n) == SubSeq(s, Max2(1, Len(s) - n + 1), Len(s))

\* the items of a list of optional items, in order
Present(s) == SelectSeq(s, LAMBDA x : x.type # "Nil")

\* df[col].iloc[a:b].max()  /  .min()
HighMax(d, a, b) == SetMax({Bar(d, k).high : k \in a..(Min2(b, Len(d)) - 1)})

LowMin(d, a, b) == SetMin({Bar(d, k).low : k \in a..(Min2(b, Len(d)) - 1)})

RECURSIVE SumOver(_, _, _)
SumOver(f, a, b) == IF a >= b THEN 0 ELSE f[a] + SumOver(f, a + 1, b)

\* a / b as numpy computes it: the pair, with b = 0 giving inf (a # 0) or nan
Quot(a, b) == <<a, b>>

\* a / b > n / m  for b >= 0, m > 0 (inf > x is true, nan > x is false)
QuotGt(a, b, n, m) == IF b = 0 THEN a > 0 ELSE a * m > n * b

\* a / b < n / m  for b >= 0, m > 0 (-inf < x is true, inf and nan are not)
QuotLt(a, b, n, m) == IF b = 0 THEN a < 0 ELSE a * m < n * b

\* [F(i) for i in range(a, b)]
ForRange(a, b, F(_)) ==
  IF b <= a THEN <<>> ELSE [k \in 1..(b - a) |-> F(a + k - 1)]

\* the list a loop over range(a, b) builds when its body appends F(i) (if any)
\* and then G(i) (if any)
ForRange2(a, b, F(_), G(_)) ==
  IF b <= a THEN <<>>
  ELSE [k \in 1..(2 * (b - a)) |->
          IF k % 2 = 1 THEN F(a + (k - 1) \div 2) ELSE G(a + (k - 2) \div 2)]

(***************************************************************************)
(* src/ict_strategies.py: the detectors.                                   *)
(***************************************************************************)
OB_LOOKBACK == 20

SWEEP_LOOKBACK == 50

SWING_LENGTH == 5

DISPLACEMENT_LOOKBACK == 10

\* the candle range(i-1, max(i-lookback, 0), -1) reaches first with Opp(j)
LastOpposite(d, i, lookback, Opp(_)) ==
  LET js == {j \in (Max2(i - lookback, 0) + 1)..(i - 1) : Opp(j)}
  IN  IF js = {} THEN NoIndex ELSE SetMax(js)

\* body of the loop of detect_order_blocks for bar i: the order block it
\* appends, or Nil.  displacement_threshold = 0.015 = 15/1000.
OrderBlockAt(d, i, lookback) ==
  LET curr_close == Bar(d, i).close
      prev_close == Bar(d, i - 1).close
      displacement == Quot(Abs(curr_close - prev_close), prev_close)
      jb == LastOpposite(d, i, lookback, LAMBDA j : Bar(d, j).close < Bar(d, j).open)
      js == LastOpposite(d, i, lookback, LAMBDA j : Bar(d, j).close > Bar(d, j).open)
      ob(t, j) == [type |-> t, start_idx |-> j, end_idx |-> i,
                   high |-> Bar(d, j).high, low |-> Bar(d, j).low,
                   strength |-> displacement, timestamp |-> Bar(d, j).ts]
  IN  IF ~QuotGt(displacement[1], displacement[2], 15, 1000) THEN Nil
      ELSE IF curr_close > prev_close
             THEN (IF jb = NoIndex THEN Nil ELSE ob("bullish_ob", jb))
      ELSE IF curr_close < prev_close
             THEN (IF js = NoIndex THEN Nil ELSE ob("bearish_ob", js))
      ELSE Nil

\* the order blocks listed from the newest to the oldest
detect_order_blocks_NewestFirst(d) ==
  LET found == Present(ForRange(OB_LOOKBACK, Len0(d),
                                LAMBDA i : OrderBlockAt(d, i, OB_LOOKBACK)))
  IN  [k \in 1..Len(found) |-> found[Len(found) + 1 - k]]

detect_order_blocks(d) ==
  Present(ForRange(OB_LOOKBACK, Len0(d), LAMBDA i : OrderBlockAt(d, i, OB_LOOKBACK)))

\* the gap test accepting candles that touch
FairValueGapAt_Touching(d, i) ==
  IF Bar(d, i).low >= Bar(d, i - 2).high
    THEN [type |-> "bullish_fvg", start_idx |-> i - 2, end_idx |-> i,
          gap_high |-> Bar(d, i).low, gap_low |-> Bar(d, i - 2).high,
          timestamp |-> Bar(d, i - 2).ts]
  ELSE IF Bar(d, i).high <= Bar(d, i - 2).low
    THEN [type |-> "bearish_fvg", start_idx |-> i - 2, end_idx |-> i,
          gap_high |-> Bar(d, i - 2).low, gap_low |-> Bar(d, i).high,
          timestamp |-> Bar(d, i - 2).ts]
  ELSE Nil

FairValueGapAt(d, i) ==
  LET candle1_high == Bar(d, i - 2).high
      candle1_low == Bar(d, i - 2).low
      candle3_high == Bar(d, i).high
      candle3_low == Bar(d, i).low
  IN  IF candle3_low > candle1_high
        THEN [type |-> "bullish_fvg", start_idx |-> i - 2, end_idx |-> i,
              gap_high |-> candle3_low, gap_low |-> candle1_high,
              timestamp |-> Bar(d, i - 2).ts]
      ELSE IF candle3_high < candle1_low
        THEN [type |-> "bearish_fvg", start_idx |-> i - 2, end_idx |-> i,
              gap_high |-> candle1_low, gap_low |-> candle3_high,
              timestamp |-> Bar(d, i - 2).ts]
      ELSE Nil

detect_fair_value_gaps(d) ==
  Present(ForRange(2, Len0(d), LAMBDA i : FairValueGapAt(d, i)))

\* sweep_threshold = 0.001: recent_high * 1.001 and recent_low * 0.999
HighSweepAt(d, i, lookback) ==
  LET recent_high == HighMax(d, i - lookback, i)
  IN  IF /\ 1000 * Bar(d, i).high > 1001 * recent_high
         /\ Bar(d, i + 1).close < Bar(d, i).close
        THEN [type |-> "high_sweep", idx |-> i, price |-> Bar(d, i).high,
              reversal |-> "bearish", timestamp |-> Bar(d, i).ts]
        ELSE Nil

LowSweepAt(d, i, lookback) ==
  LET recent_low == LowMin(d, i - lookback, i)
  IN  IF /\ 1000 * Bar(d, i).low < 999 * recent_low
         /\ Bar(d, i + 1).close > Bar(d, i).close
        THEN [type |-> "low_sweep", idx |-> i, price |-> Bar(d, i).low,
              reversal |-> "bullish", timestamp |-> Bar(d, i).ts]
        ELSE Nil

detect_liquidity_sweeps(d) ==
  Present(ForRange2(SWEEP_LOOKBACK, Len0(d) - 1,
                    LAMBDA i : HighSweepAt(d, i, SWEEP_LOOKBACK),
                    LAMBDA i : LowSweepAt(d, i, SWEEP_LOOKBACK)))

\* the swing highs confirmed by the bars before them only
SwingHighs_LeftOnly(d, lo, hi, swing_length) ==
  {i \in PyRange(lo, hi) : Bar(d, i).high = HighMax(d, i - swing_length, i + 1)}

\* the swing_highs / swing_lows lists built over range(lo, hi): the indices,
\* in increasing order, of the bars that are the extremum of their window
SwingHighs(d, lo, hi, swing_length) ==
  {i \in PyRange(lo, hi) :
     Bar(d, i).high = HighMax(d, i - swing_length, i + swing_length + 1)}

SwingLows(d, lo, hi, swing_length) ==
  {i \in PyRange(lo, hi) :
     Bar(d, i).low = LowMin(d, i - swing_length, i + swing_length + 1)}

\* the first swing of the list (lowest index) that passes Hit, or NoIndex
FirstSwing(swings, Hit(_)) ==
  LET hits == {s \in swings : Hit(s)}
  IN  IF hits = {} THEN NoIndex ELSE SetMin(hits)

BosRecord(d, i, dir, level) ==
  [type |-> "bos", direction |-> dir, idx |-> i, price |-> Bar(d, i).close,
   broken_level |-> level, timestamp |-> Bar(d, i).ts]

\* the bullish break taken against the broken swing high nearest in price
BullishBosAt_Nearest(d, i, swing_highs) ==
  LET hits == {s \in swing_highs : s < i /\ Bar(d, i).close > Bar(d, s).high}
  IN  IF hits = {} THEN [type |-> "Nil"]
      ELSE [type |-> "bos", direction |-> "bullish", idx |-> i,
            price |-> Bar(d, i).close,
            broken_level |-> SetMax({Bar(d, s).high : s \in hits}),
            timestamp |-> Bar(d, i).ts]

BullishBosAt(d, i, swing_highs) ==
  LET sh == FirstSwing(swing_highs,
                       LAMBDA s : s < i /\ Bar(d, i).close > Bar(d, s).high)
  IN  IF sh = NoIndex THEN Nil ELSE BosRecord(d, i, "bullish", Bar(d, sh).high)

BearishBosAt(d, i, swing_lows) ==
  LET sl == FirstSwing(swing_lows,
                       LAMBDA s : s < i /\ Bar(d, i).close < Bar(d, s).low)
  IN  IF sl = NoIndex THEN Nil ELSE BosRecord(d, i, "bearish", Bar(d, sl).low)

detect_market_structure_shift(d) ==
  LET swing_highs == SwingHighs(d, SWING_LENGTH, Len0(d) - SWING_LENGTH, SWING_LENGTH)
      swing_lows == SwingLows(d, SWING_LENGTH, Len0(d) - SWING_LENGTH, SWING_LENGTH)
  IN  Present(ForRange2(0, Len0(d),
                        LAMBDA i : BullishBosAt(d, i, swing_highs),
                        LAMBDA i : BearishBosAt(d, i, swing_lows)))

\* the four OTE levels, each multiplied by 1000 (0.62, 0.705, 0.79, 0.50)
calculate_ote_levels(high, low) ==
  LET diff == high - low
  IN  <<1000 * low + 620 * diff, 1000 * low + 705 * diff,
        1000 * low + 790 * diff, 1000 * low + 500 * diff>>

\* body of the loop of detect_displacement for bar i (threshold = 0.02)
DisplacementAt(d, i, lookback) ==
  LET range_sum == SumOver([k \in (i - lookback)..(i - 1) |->
                              Bar(d, k).high - Bar(d, k).low], i - lookback, i)
      curr_range == Bar(d, i).high - Bar(d, i).low
      body_size == Abs(Bar(d, i).close - Bar(d, i).open)
      change == Bar(d, i).close - Bar(d, i - 1).close
      prev_close == Bar(d, i - 1).close
  IN  IF /\ 2 * lookback * curr_range > 3 * range_sum
         /\ 10 * body_size > 7 * curr_range
         /\ QuotGt(Abs(change), prev_close, 2, 100)
        THEN [type |-> IF change > 0 THEN "bullish" ELSE "bearish",
              idx |-> i, magnitude |-> Quot(change, prev_close),
              strength |-> Quot(lookback * body_size, range_sum),
              timestamp |-> Bar(d, i).ts]
        ELSE Nil

detect_displacement(d) ==
  Present(ForRange(DISPLACEMENT_LOOKBACK, Len0(d),
                   LAMBDA i : DisplacementAt(d, i, DISPLACEMENT_LOOKBACK)))

BPR_LOOKBACK == 20

\* std / extreme < tolerance (0.005) for the values xs[a..b-1], std being the
\* sample standard deviation: with n values at the distances y from their
\* extreme, n * (n - 1) * std^2 = n * sum(y^2) - sum(y)^2 (the sum of the
\* squared differences of all pairs), so for extreme > 0 the test is
\* 20000 * pairs < (n * (n - 1) / 2) * extreme^2; a zero extreme gives nan or
\* inf, which is not below the tolerance
RelativelyEqual(xs, a, b, extreme) ==
  LET n == b - a
      squares == SumOver([i \in a..(b - 1) |-> (xs[i] - extreme) * (xs[i] - extreme)], a, b)
      distances == SumOver([i \in a..(b - 1) |-> xs[i] - extreme], a, b)
      pairs == n * squares - distances * distances
  IN  IF extreme = 0 THEN FALSE
      ELSE IF extreme < 0 THEN TRUE
      ELSE pairs <= (((n * (n - 1)) \div 2) * extreme * extreme - 1) \div 20000

\* the test of the loop of detect_bpr for bar i
BalancedAt(d, i, lookback) ==
  /\ RelativelyEqual([k \in (i - lookback)..(i - 1) |-> Bar(d, k).high],
                     i - lookback, i, HighMax(d, i - lookback, i))
  /\ RelativelyEqual([k \in (i - lookback)..(i - 1) |-> Bar(d, k).low],
                     i - lookback, i, LowMin(d, i - lookback, i))

detect_bpr(d) ==
  LET found == SelectSeq(ForRange(BPR_LOOKBACK, Len0(d), LAMBDA i : i),
                         LAMBDA i : BalancedAt(d, i, BPR_LOOKBACK))
  IN  [k \in 1..Len(found) |->
         [start_idx |-> found[k] - BPR_LOOKBACK, end_idx |-> found[k],
          high |-> HighMax(d, found[k] - BPR_LOOKBACK, found[k]),
          low |-> LowMin(d, found[k] - BPR_LOOKBACK, found[k]),
          timestamp |-> Bar(d, found[k] - BPR_LOOKBACK).ts]]

\* body of the loop of detect_volume_imbalance for bar i
VolumeImbalanceAt(d, i) ==
  LET prev_high == Bar(d, i - 1).high
      prev_low == Bar(d, i - 1).low
      curr_high == Bar(d, i).high
      curr_low == Bar(d, i).low
      next_high == Bar(d, i + 1).high
      next_low == Bar(d, i + 1).low
  IN  IF curr_low > prev_high /\ curr_low > next_high
        THEN [type |-> "bullish_imbalance", idx |-> i, gap_high |-> curr_low,
              gap_low |-> Max2(prev_high, next_high), timestamp |-> Bar(d, i).ts]
      ELSE IF curr_high < prev_low /\ curr_high < next_low
        THEN [type |-> "bearish_imbalance", idx |-> i,
              gap_high |-> Min2(prev_low, next_low), gap_low |-> curr_high,
              timestamp |-> Bar(d, i).ts]
      ELSE Nil

detect_volume_imbalance(d) ==
  Present(ForRange(1, Len0(d) - 1, LAMBDA i : VolumeImbalanceAt(d, i)))

get_all_ict_indicators(d) ==
  [order_blocks |-> detect_order_blocks(d),
   fair_value_gaps |-> detect_fair_value_gaps(d),
   liquidity_sweeps |-> detect_liquidity_sweeps(d),
   market_structure |-> detect_market_structure_shift(d),
   displacements |-> detect_displacement(d),
   bpr |-> detect_bpr(d),
   volume_imbalances |-> detect_volume_imbalance(d)]

(***************************************************************************)
(* src/ict_advanced.py: kill zones, CHOCH, premium/discount, power of 3,   *)
(* higher-timeframe bias.                                                  *)
(***************************************************************************)
\* timestamp.astimezone(US/Eastern).hour for a UTC hour count (EST = UTC-5;
\* a naive timestamp is localized to UTC first, so both cases agree)
EstHour(ts) == (ts + 19) % 24

\* KILL_ZONES in dictionary order: name, start hour, end hour
KILL_ZONES ==
  << <<"LONDON_KILLZONE", 2, 5>>, <<"NEW_YORK_AM", 7, 10>>,
     <<"NEW_YORK_PM", 13, 16>>, <<"ASIAN_SESSION", 20, 24>> >>

\* the weights with those of NEW_YORK_AM and OUTSIDE exchanged
KILL_ZONE_WEIGHTS_Exchanged(zone_name) ==
  CASE zone_name = "NEW_YORK_AM" -> 60
    [] zone_name = "LONDON_KILLZONE" -> 90
    [] zone_name = "NEW_YORK_PM" -> 85
    [] zone_name = "ASIAN_SESSION" -> 70
    [] zone_name = "OUTSIDE" -> 100

\* KILL_ZONE_WEIGHTS, in hundredths
KILL_ZONE_WEIGHTS(zone_name) ==
  CASE zone_name = "NEW_YORK_AM" -> 100
    [] zone_name = "LONDON_KILLZONE" -> 90
    [] zone_name = "NEW_YORK_PM" -> 85
    [] zone_name = "ASIAN_SESSION" -> 70
    [] zone_name = "OUTSIDE" -> 60

\* is_in_kill_zone(timestamp, return_zone=True)
is_in_kill_zone(ts) ==
  LET hour == EstHour(ts)
      hits == {k \in DOMAIN KILL_ZONES :
                 KILL_ZONES[k][2] <= hour /\ hour < KILL_ZONES[k][3]}
  IN  IF hits # {}
        THEN LET zone_name == KILL_ZONES[SetMin(hits)][1]
             IN  [in_zone |-> TRUE, zone_name |-> zone_name,
                  weight |-> KILL_ZONE_WEIGHTS(zone_name)]
        ELSE [in_zone |-> FALSE, zone_name |-> "OUTSIDE",
              weight |-> KILL_ZONE_WEIGHTS("OUTSIDE")]

ChochRecord(d, i, dir, level) ==
  [type |-> "choch", direction |-> dir, idx |-> i, price |-> Bar(d, i).close,
   broken_level |-> level,
   strength |-> Quot(Bar(d, i - 3).close - Abs(Bar(d, i).close - Bar(d, i - 3).close),
                     Bar(d, i - 3).close),
   timestamp |-> Bar(d, i).ts]

\* volume_decreasing or price_momentum < 0.01 at bar i
WeakMomentum(d, i) ==
  LET volume_sum == SumOver([k \in (i - 5)..(i - 1) |-> Bar(d, k).volume], i - 5, i)
      volume_decreasing == 25 * Bar(d, i).volume < 4 * volume_sum
  IN  \/ volume_decreasing
      \/ QuotLt(Abs(Bar(d, i).close - Bar(d, i - 3).close), Bar(d, i - 3).close, 1, 100)

BullishChochAt(d, i, swing_lows, lookback) ==
  LET sl == FirstSwing(swing_lows,
              LAMBDA s : /\ s < i - 5 /\ s > i - lookback
                         /\ Bar(d, i).close < Bar(d, s).low
                         /\ WeakMomentum(d, i)
                         /\ i < Len0(d) - 2
                         /\ Bar(d, i + 1).close > Bar(d, i).close)
  IN  IF i < 5 \/ sl = NoIndex THEN Nil
      ELSE ChochRecord(d, i, "bullish", Bar(d, sl).low)

BearishChochAt(d, i, swing_highs, lookback) ==
  LET sh == FirstSwing(swing_highs,
              LAMBDA s : /\ s < i - 5 /\ s > i - lookback
                         /\ Bar(d, i).close > Bar(d, s).high
                         /\ WeakMomentum(d, i)
                         /\ i < Len0(d) - 2
                         /\ Bar(d, i + 1).close < Bar(d, i).close)
  IN  IF i < 5 \/ sh = NoIndex THEN Nil
      ELSE ChochRecord(d, i, "bearish", Bar(d, sh).high)

\* detect_choch collecting the swings of the whole frame
detect_choch_AllSwings(d, swing_length, lookback) ==
  LET hi == Len0(d) - swing_length
      swing_highs == SwingHighs(d, swing_length, hi, swing_length)
      swing_lows == SwingLows(d, swing_length, hi, swing_length)
  IN  Present(ForRange2(lookback, Len0(d),
                        LAMBDA i : BullishChochAt(d, i, swing_lows, lookback),
                        LAMBDA i : BearishChochAt(d, i, swing_highs, lookback)))

detect_choch(d, swing_length, lookback) ==
  LET hi == Min2(Len0(d) - swing_length, lookback)
      swing_highs == SwingHighs(d, swing_length, hi, swing_length)
      swing_lows == SwingLows(d, swing_length, hi, swing_length)
  IN  Present(ForRange2(lookback, Len0(d),
                        LAMBDA i : BullishChochAt(d, i, swing_lows, lookback),
                        LAMBDA i : BearishChochAt(d, i, swing_highs, lookback)))

\* the position of the price in the range, the bottom taken for a range of
\* no height
PricePosition_BottomDefault(current_price, recent_high, recent_low) ==
  IF recent_high # recent_low
    THEN Quot(current_price - recent_low, recent_high - recent_low)
    ELSE Quot(0, 1)

\* price_position = (current_price - recent_low) / (recent_high - recent_low)
\*                  if recent_high != recent_low else 0.5
PricePosition(current_price, recent_high, recent_low) ==
  IF recent_high # recent_low
    THEN Quot(current_price - recent_low, recent_high - recent_low)
    ELSE Quot(1, 2)

calculate_premium_discount_zone(d, lookback) ==
  LET n == Len0(d)
      recent_high == HighMax(d, Max2(0, n - lookback), n)
      recent_low == LowMin(d, Max2(0, n - lookback), n)
      current_price == Bar(d, n - 1).close
      price_position == PricePosition(current_price, recent_high, recent_low)
      num == price_position[1]
      den == price_position[2]
  IN  [zone |-> IF 2 * num > den THEN "PREMIUM" ELSE "DISCOUNT",
       detailed_zone |-> IF 10 * num > 7 * den THEN "EXTREME_PREMIUM"
                         ELSE IF 2 * num > den THEN "PREMIUM"
                         ELSE IF 10 * num < 3 * den THEN "EXTREME_DISCOUNT"
                         ELSE "DISCOUNT",
       range_high |-> recent_high, range_low |-> recent_low,
       midpoint |-> Quot(recent_high + recent_low, 2),
       price_position |-> price_position, current_price |-> current_price]

get_power_of_3_phase(ts) ==
  LET hour == EstHour(ts)
  IN  [phase |-> IF 0 <= hour /\ hour < 8 THEN "ACCUMULATION"
                 ELSE IF 8 <= hour /\ hour < 11 THEN "MANIPULATION"
                 ELSE IF 11 <= hour /\ hour < 16 THEN "DISTRIBUTION"
                 ELSE "AFTER_HOURS",
       hour |-> hour]

\* the session of an hour, New York tested before London
SessionOf_NewYorkFirst(hour) ==
  IF 19 <= hour /\ hour <= 23 THEN "asian"
  ELSE IF 7 <= hour /\ hour < 16 THEN "newyork"
  ELSE IF 2 <= hour /\ hour < 10 THEN "london"
  ELSE "none"

\* the branch of the if / elif / elif chain taken for an hour
SessionOf(hour) ==
  IF 19 <= hour /\ hour <= 23 THEN "asian"
  ELSE IF 2 <= hour /\ hour < 10 THEN "london"
  ELSE IF 7 <= hour /\ hour < 16 THEN "newyork"
  ELSE "none"

\* a level that is None is the empty tuple, a level that is set a 1-tuple
NoLevel == <<>>

\* the two updates of one session's levels by one bar
LevelsUpdated(level, price_high, price_low) ==
  [high |-> IF level.high = NoLevel \/ price_high > level.high[1]
              THEN <<price_high>> ELSE level.high,
   low |-> IF level.low = NoLevel \/ price_low < level.low[1]
             THEN <<price_low>> ELSE level.low,
   swept |-> level.swept]

\* session_levels after the first n bars of the loop
RECURSIVE SessionLevels(_, _)
SessionLevels(d, n) ==
  IF n = 0
    THEN [s \in {"asian", "london", "newyork"} |->
            [high |-> NoLevel, low |-> NoLevel, swept |-> FALSE]]
  ELSE LET before == SessionLevels(d, n - 1)
           session == SessionOf(EstHour(Bar(d, n - 1).ts))
       IN  IF session = "none" THEN before
           ELSE [before EXCEPT ![session] =
                   LevelsUpdated(before[session], Bar(d, n - 1).high, Bar(d, n - 1).low)]

detect_session_liquidity(d) == SessionLevels(d, Len0(d))

HTF_MIN_BARS == 20

\* the lookback taking the last 20 bars of a frame of 20 bars
HtfLookback_Twenty(h) == Min2(20, Len0(h))

\* lookback = min(20, len(df) - 1)
HtfLookback(h) == Min2(20, Len0(h) - 1)

get_htf_bias(h) ==
  IF h = NoFrame \/ Len0(h) < HTF_MIN_BARS
    THEN [bias |-> "NEUTRAL", strength |-> 0, reasoning |-> "Insufficient HTF data"]
  ELSE
    LET lookback == HtfLookback(h)
        recent_df == LastN(h, lookback)
        n == Len0(recent_df)
        hh_count == Cardinality({i \in PyRange(5, n) :
                       Bar(recent_df, i).high > HighMax(recent_df, i - 5, i)})
        hl_count == Cardinality({i \in PyRange(5, n) :
                       Bar(recent_df, i).low > LowMin(recent_df, i - 5, i)})
        lh_count == Cardinality({i \in PyRange(5, n) :
                       Bar(recent_df, i).high < HighMax(recent_df, i - 5, i)})
        ll_count == Cardinality({i \in PyRange(5, n) :
                       Bar(recent_df, i).low < LowMin(recent_df, i - 5, i)})
        bullish_structure == hh_count + hl_count
        bearish_structure == lh_count + ll_count
        window == Min2(20, n)
        close_sum == SumOver([k \in (n - window)..(n - 1) |-> Bar(recent_df, k).close],
                             n - window, n)
        current_price == Bar(recent_df, n - 1).close
        above_ma == current_price * window > close_sum
        total == Max2(bullish_structure + bearish_structure, 1)
    IN  IF bullish_structure > bearish_structure /\ above_ma
          THEN [bias |-> "BULLISH",
                strength |-> Min2(100, (bullish_structure * 100) \div total),
                reasoning |-> "Higher highs/lows forming, price above MA",
                price_vs_ma |-> "above"]
        ELSE IF bearish_structure > bullish_structure /\ ~above_ma
          THEN [bias |-> "BEARISH",
                strength |-> Min2(100, (bearish_structure * 100) \div total),
                reasoning |-> "Lower highs/lows forming, price below MA",
                price_vs_ma |-> "below"]
        ELSE [bias |-> "NEUTRAL", strength |-> 50,
              reasoning |-> "Mixed signals - no clear HTF trend",
              price_vs_ma |-> IF above_ma THEN "above" ELSE "below"]

(***************************************************************************)
(* src/signal_generator.py                                                 *)
(***************************************************************************)
MIN_BARS == 50

LOOKBACK_DAYS == 60

CHOCH_LOOKBACK == 50

\* scores are held multiplied by ScoreScale (weights are hundredths, the
\* premium/discount and higher-timeframe factors are tenths)
ScoreScale == 10000

\* one line of the reasoning list: its text and the values formatted into it
Line(text, name, a, b) == [text |-> text, name |-> name, a |-> a, b |-> b]

\* Python dictionaries are insertion-ordered lists of key/value entries
Entry(k, v) == [k |-> k, v |-> v]

Keys(dict) == {dict[i].k : i \in DOMAIN dict}

Get(dict, key) == dict[CHOOSE i \in DOMAIN dict : dict[i].k = key].v

\* z.get('idx', z.get('start_idx', 0))
AnchorIdx(z) ==
  IF "idx" \in DOMAIN z THEN z.idx
  ELSE IF "start_idx" \in DOMAIN z THEN z.start_idx ELSE 0

filter_recent_zones(zones, current_idx, lookback) ==
  SelectSeq(zones, LAMBDA z : current_idx - AnchorIdx(z) <= lookback)

\* the proximity test with both ends of the band excluded
check_price_near_zone_Strict(current_price, zone_high, zone_low) ==
  LET zone_range == zone_high - zone_low
      buffer50 == IF zone_range > 0 THEN zone_range ELSE current_price
  IN  /\ 50 * current_price > 50 * zone_low - buffer50
      /\ 50 * current_price < 50 * zone_high + buffer50

\* tolerance = 0.02: buffer = zone_range / 50 or current_price / 50
check_price_near_zone(current_price, zone_high, zone_low) ==
  LET zone_range == zone_high - zone_low
      buffer50 == IF zone_range > 0 THEN zone_range ELSE current_price
  IN  /\ 50 * current_price >= 50 * zone_low - buffer50
      /\ 50 * current_price <= 50 * zone_high + buffer50

\* any(abs(current_price - level) / current_price < 0.015 for level in ote_levels)
AtOte(current_price, ote_levels) ==
  \E k \in DOMAIN ote_levels :
    QuotLt(Abs(1000 * current_price - ote_levels[k]), 1000 * current_price, 3, 200)

\* what one rule adds: points, reasoning lines, breakdown entries, zones
Nothing == [bull |-> 0, bear |-> 0, reasoning |-> <<>>, details |-> <<>>, zones |-> <<>>]

Adds(bull, bear, text, a, b, detail, zones) ==
  [bull |-> bull, bear |-> bear, reasoning |-> <<Line(text, "", a, b)>>,
   details |-> <<Entry(detail, bull + bear)>>, zones |-> zones]

Plus(x, y) ==
  [bull |-> x.bull + y.bull, bear |-> x.bear + y.bear,
   reasoning |-> x.reasoning \o y.reasoning, details |-> x.details \o y.details,
   zones |-> x.zones \o y.zones]

RECURSIVE PlusAll(_)
PlusAll(xs) == IF xs = <<>> THEN Nothing ELSE Plus(Head(xs), PlusAll(Tail(xs)))

\* the first item of the list that passes Test, or Nil (a loop with break)
FirstThat(xs, Test(_)) ==
  LET hits == {i \in DOMAIN xs : Test(xs[i])}
  IN  IF hits = {} THEN Nil ELSE xs[SetMin(hits)]

\* 4. CHOCH: the last two CHOCH of the last 10 bars, 10 points each
ChochRule(d, current_idx) ==
  LET choch_signals == detect_choch(d, SWING_LENGTH, CHOCH_LOOKBACK)
      recent_choch == SelectSeq(choch_signals, LAMBDA c : current_idx - c.idx <= 10)
      one(c) == IF c.direction = "bullish"
                  THEN Adds(10, 0, "Bullish CHOCH detected (reversal signal)", 0, 0,
                            "CHOCH_BULLISH", <<>>)
                  ELSE Adds(0, 10, "Bearish CHOCH detected (reversal signal)", 0, 0,
                            "CHOCH_BEARISH", <<>>)
      last2 == LastN(recent_choch, 2)
  IN  PlusAll([k \in DOMAIN last2 |-> one(last2[k])])

\* the bullish order-block rule giving 12 points at OTE whatever the hour
BullishObRule_AnyHour(bullish_obs, current_price, at_ote, in_kill_zone) ==
  LET hits == {i \in 1..Min2(2, Len(bullish_obs)) :
                 check_price_near_zone(current_price, bullish_obs[i].high,
                                       bullish_obs[i].low)}
      ob == bullish_obs[SetMin(hits)]
      zones == <<Entry("bullish_ob", <<ob>>)>>
  IN  IF hits = {} THEN Nothing
      ELSE IF at_ote
        THEN Adds(12, 0, "Bullish Order Block at OTE in Kill Zone", ob.low, ob.high,
                  "OB_OTE_KILLZONE", zones)
      ELSE Adds(6, 0, "Bullish Order Block", ob.low, ob.high, "OB_BULLISH", zones)

\* 5. order blocks: the first of the first two that is near the price
BullishObRule(bullish_obs, current_price, at_ote, in_kill_zone) ==
  LET ob == FirstThat(Head2(bullish_obs, 2),
                      LAMBDA o : check_price_near_zone(current_price, o.high, o.low))
      zones == <<Entry("bullish_ob", <<ob>>)>>
  IN  IF ob.type = "Nil" THEN Nothing
      ELSE IF at_ote /\ in_kill_zone
        THEN Adds(12, 0, "Bullish Order Block at OTE in Kill Zone", ob.low, ob.high,
                  "OB_OTE_KILLZONE", zones)
      ELSE IF at_ote
        THEN Adds(9, 0, "Bullish Order Block at OTE level", 0, 0, "OB_OTE", zones)
      ELSE Adds(6, 0, "Bullish Order Block", ob.low, ob.high, "OB_BULLISH", zones)

BearishObRule(bearish_obs, current_price, at_ote, in_kill_zone) ==
  LET ob == FirstThat(Head2(bearish_obs, 2),
                      LAMBDA o : check_price_near_zone(current_price, o.high, o.low))
      zones == <<Entry("bearish_ob", <<ob>>)>>
  IN  IF ob.type = "Nil" THEN Nothing
      ELSE IF at_ote /\ in_kill_zone
        THEN Adds(0, 12, "Bearish Order Block at OTE in Kill Zone", ob.low, ob.high,
                  "OB_OTE_KILLZONE_BEAR", zones)
      ELSE IF at_ote
        THEN Adds(0, 9, "Bearish Order Block at OTE level", 0, 0, "OB_OTE_BEAR", zones)
      ELSE Adds(0, 6, "Bearish Order Block", ob.low, ob.high, "OB_BEARISH", zones)

\* the bullish fair-value-gap rule accepting only a price above gap_low
BullishFvgRule_InsideBand(bullish_fvgs, current_price, zone) ==
  LET hits == {i \in 1..Min2(2, Len(bullish_fvgs)) :
                 /\ current_price < bullish_fvgs[i].gap_high
                 /\ current_price > bullish_fvgs[i].gap_low}
      fvg == bullish_fvgs[SetMin(hits)]
      zones == <<Entry("bullish_fvg", <<fvg>>)>>
  IN  IF hits = {} THEN Nothing
      ELSE IF zone = "DISCOUNT"
        THEN Adds(9, 0, "Bullish FVG in DISCOUNT zone", fvg.gap_low, fvg.gap_high,
                  "FVG_DISCOUNT", zones)
      ELSE Adds(4, 0, "Bullish FVG", fvg.gap_low, fvg.gap_high, "FVG_BULLISH", zones)

\* 6. fair value gaps: price < gap_high and price > gap_low * 0.95 (bullish),
\*    price > gap_low and price < gap_high * 1.05 (bearish)
BullishFvgRule(bullish_fvgs, current_price, zone) ==
  LET fvg == FirstThat(Head2(bullish_fvgs, 2),
                       LAMBDA f : /\ current_price < f.gap_high
                                  /\ 100 * current_price > 95 * f.gap_low)
      zones == <<Entry("bullish_fvg", <<fvg>>)>>
  IN  IF fvg.type = "Nil" THEN Nothing
      ELSE IF zone = "DISCOUNT"
        THEN Adds(9, 0, "Bullish FVG in DISCOUNT zone", fvg.gap_low, fvg.gap_high,
                  "FVG_DISCOUNT", zones)
      ELSE Adds(4, 0, "Bullish FVG", fvg.gap_low, fvg.gap_high, "FVG_BULLISH", zones)

BearishFvgRule(bearish_fvgs, current_price, zone) ==
  LET fvg == FirstThat(Head2(bearish_fvgs, 2),
                       LAMBDA f : /\ current_price > f.gap_low
                                  /\ 100 * current_price < 105 * f.gap_high)
      zones == <<Entry("bearish_fvg", <<fvg>>)>>
  IN  IF fvg.type = "Nil" THEN Nothing
      ELSE IF zone = "PREMIUM"
        THEN Adds(0, 9, "Bearish FVG in PREMIUM zone", fvg.gap_low, fvg.gap_high,
                  "FVG_PREMIUM", zones)
      ELSE Adds(0, 4, "Bearish FVG", fvg.gap_low, fvg.gap_high, "FVG_BEARISH", zones)

\* 7. liquidity sweeps: the last two of the last 15 bars, 6 points each
SweepRule(sweeps, current_idx) ==
  LET recent_sweeps == filter_recent_zones(sweeps, current_idx, 15)
      one(w) == IF w.reversal = "bullish"
                  THEN Adds(6, 0, "Bullish liquidity sweep", w.price, 0,
                            "LIQ_SWEEP_BULL", <<>>)
                  ELSE Adds(0, 6, "Bearish liquidity sweep", w.price, 0,
                            "LIQ_SWEEP_BEAR", <<>>)
      last2 == LastN(recent_sweeps, 2)
  IN  PlusAll([k \in DOMAIN last2 |-> one(last2[k])])

\* 8. market structure: the majority direction of the BOS of the last 30 bars
BosRule(market_structure, current_idx) ==
  LET recent_structure == filter_recent_zones(market_structure, current_idx, 30)
      bullish_bos == SelectSeq(recent_structure, LAMBDA x : x.direction = "bullish")
      bearish_bos == SelectSeq(recent_structure, LAMBDA x : x.direction = "bearish")
  IN  IF Len(bullish_bos) > Len(bearish_bos)
        THEN Adds(4, 0, "Bullish market structure (BOS)", 0, 0, "BOS_BULLISH", <<>>)
      ELSE IF Len(bearish_bos) > Len(bullish_bos)
        THEN Adds(0, 4, "Bearish market structure (BOS)", 0, 0, "BOS_BEARISH", <<>>)
      ELSE Nothing

\* 9. displacement: the most recent one of the last 10 bars
DisplacementRule(displacements, current_idx) ==
  LET recent_displacements == filter_recent_zones(displacements, current_idx, 10)
      one(x) == IF x.type = "bullish"
                  THEN Adds(7, 0, "Bullish displacement", x.strength[1], x.strength[2],
                            "DISPLACEMENT_BULL", <<>>)
                  ELSE Adds(0, 7, "Bearish displacement", x.strength[1], x.strength[2],
                            "DISPLACEMENT_BEAR", <<>>)
      last1 == LastN(recent_displacements, 1)
  IN  PlusAll([k \in DOMAIN last1 |-> one(last1[k])])

\* 10. bullish_points *= kz_weight (the weight in hundredths)
KillZoneWeighted(points, kz_weight) == points * kz_weight * (ScoreScale \div 100)

\* the premium penalty taking 70% off instead of 30%
PremiumPenalty_SeventyOff(zone, bullish_points) ==
  IF zone = "PREMIUM" /\ bullish_points > 0 THEN (bullish_points * 7) \div 10 ELSE 0

\* penalty = bullish_points * 0.3 when buying in PREMIUM, else no penalty
PremiumPenalty(zone, bullish_points) ==
  IF zone = "PREMIUM" /\ bullish_points > 0 THEN (bullish_points * 3) \div 10 ELSE 0

\* penalty = bearish_points * 0.3 when selling in DISCOUNT, else no penalty
DiscountPenalty(zone, bearish_points) ==
  IF zone = "DISCOUNT" /\ bearish_points > 0 THEN (bearish_points * 3) \div 10 ELSE 0

\* the direction reported from a score of 4 on
Direction_FromFour(bullish_points, bearish_points) ==
  IF bullish_points > bearish_points /\ bullish_points >= 4 * ScoreScale THEN "LONG"
  ELSE IF bearish_points > bullish_points /\ bearish_points >= 4 * ScoreScale THEN "SHORT"
  ELSE "NEUTRAL"

\* LONG / SHORT / NEUTRAL from the two scores (the test made before the
\* higher-timeframe adjustment and again when the final signal is set)
Direction(bullish_points, bearish_points) ==
  IF bullish_points > bearish_points /\ bullish_points >= 5 * ScoreScale THEN "LONG"
  ELSE IF bearish_points > bullish_points /\ bearish_points >= 5 * ScoreScale THEN "SHORT"
  ELSE "NEUTRAL"

\* the higher-timeframe adjustment with bonus and penalty exchanged:
\* -20% when aligned, +10% when opposed
HtfAdjusted_Exchanged(signal_direction, htf_bias, bullish_points, bearish_points) ==
  IF signal_direction = "LONG" /\ htf_bias = "BULLISH"
    THEN [bull |-> bullish_points - (bullish_points * 2) \div 10, bear |-> bearish_points,
          reasoning |-> <<>>]
  ELSE IF signal_direction = "LONG" /\ htf_bias = "BEARISH"
    THEN [bull |-> bullish_points + bullish_points \div 10, bear |-> bearish_points,
          reasoning |-> <<>>]
  ELSE IF signal_direction = "SHORT" /\ htf_bias = "BEARISH"
    THEN [bull |-> bullish_points, bear |-> bearish_points - (bearish_points * 2) \div 10,
          reasoning |-> <<>>]
  ELSE IF signal_direction = "SHORT" /\ htf_bias = "BULLISH"
    THEN [bull |-> bullish_points, bear |-> bearish_points + bearish_points \div 10,
          reasoning |-> <<>>]
  ELSE [bull |-> bullish_points, bear |-> bearish_points, reasoning |-> <<>>]

\* the higher-timeframe adjustment applied to both scores at once
HtfAdjusted_BothScores(signal_direction, htf_bias, bullish_points, bearish_points) ==
  IF (signal_direction = "LONG" /\ htf_bias = "BULLISH")
     \/ (signal_direction = "SHORT" /\ htf_bias = "BEARISH")
    THEN [bull |-> bullish_points + bullish_points \div 10,
          bear |-> bearish_points + bearish_points \div 10, reasoning |-> <<>>]
  ELSE IF (signal_direction = "LONG" /\ htf_bias = "BEARISH")
          \/ (signal_direction = "SHORT" /\ htf_bias = "BULLISH")
    THEN [bull |-> bullish_points - (bullish_points * 2) \div 10,
          bear |-> bearish_points - (bearish_points * 2) \div 10, reasoning |-> <<>>]
  ELSE [bull |-> bullish_points, bear |-> bearish_points, reasoning |-> <<>>]

\* the higher-timeframe adjustment: +10% when aligned, -20% when opposed
HtfAdjusted(signal_direction, htf_bias, bullish_points, bearish_points) ==
  IF signal_direction = "LONG" /\ htf_bias = "BULLISH"
    THEN [bull |-> bullish_points + bullish_points \div 10, bear |-> bearish_points,
          reasoning |-> <<Line("HTF ALIGNED with LONG - bonus", "", bullish_points \div 10, 0)>>]
  ELSE IF signal_direction = "LONG" /\ htf_bias = "BEARISH"
    THEN [bull |-> bullish_points - (bullish_points * 2) \div 10, bear |-> bearish_points,
          reasoning |-> <<Line("HTF AGAINST LONG (counter-trend) - penalty", "",
                               (bullish_points * 2) \div 10, 0)>>]
  ELSE IF signal_direction = "SHORT" /\ htf_bias = "BEARISH"
    THEN [bull |-> bullish_points, bear |-> bearish_points + bearish_points \div 10,
          reasoning |-> <<Line("HTF ALIGNED with SHORT - bonus", "", bearish_points \div 10, 0)>>]
  ELSE IF signal_direction = "SHORT" /\ htf_bias = "BULLISH"
    THEN [bull |-> bullish_points, bear |-> bearish_points - (bearish_points * 2) \div 10,
          reasoning |-> <<Line("HTF AGAINST SHORT (counter-trend) - penalty", "",
                               (bearish_points * 2) \div 10, 0)>>]
  ELSE [bull |-> bullish_points, bear |-> bearish_points, reasoning |-> <<>>]

\* 11. the final signal, re-derived from the adjusted scores
FinalSignal(bullish_points, bearish_points) == Direction(bullish_points, bearish_points)

\* the confidence without the cap at 100
Confidence_NoCap(signal_points) ==
  IF signal_points >= 21 * ScoreScale
    THEN 80 + (signal_points - 21 * ScoreScale) \div ScoreScale
  ELSE IF signal_points >= 13 * ScoreScale
    THEN 60 + ((signal_points - 13 * ScoreScale) * 25) \div (10 * ScoreScale)
  ELSE IF signal_points >= 6 * ScoreScale
    THEN 30 + ((signal_points - 6 * ScoreScale) * 5) \div ScoreScale
  ELSE Min2(30, (signal_points * 6) \div ScoreScale)

\* the confidence with the 13..21 tier multiplied by 2 instead of 2.5
Confidence_TierSlope(signal_points) ==
  IF signal_points >= 21 * ScoreScale
    THEN Min2(100, 80 + (signal_points - 21 * ScoreScale) \div ScoreScale)
  ELSE IF signal_points >= 13 * ScoreScale
    THEN 60 + ((signal_points - 13 * ScoreScale) * 2) \div ScoreScale
  ELSE IF signal_points >= 6 * ScoreScale
    THEN 30 + ((signal_points - 6 * ScoreScale) * 5) \div ScoreScale
  ELSE Min2(30, (signal_points * 6) \div ScoreScale)

\* confidence from signal_points; int() truncates, the operands are >= 0
Confidence(signal_points) ==
  IF signal_points >= 21 * ScoreScale
    THEN Min2(100, 80 + (signal_points - 21 * ScoreScale) \div ScoreScale)
  ELSE IF signal_points >= 13 * ScoreScale
    THEN 60 + ((signal_points - 13 * ScoreScale) * 25) \div (10 * ScoreScale)
  ELSE IF signal_points >= 6 * ScoreScale
    THEN 30 + ((signal_points - 6 * ScoreScale) * 5) \div ScoreScale
  ELSE Min2(30, (signal_points * 6) \div ScoreScale)

\* the entry levels with the stop 2% on the wrong side of an order-block entry
EntryLevels_StopAcross(signal, active_zones, current_price, swing_high, swing_low) ==
  LET levels(e, sl, tp1, tp2) ==
        <<Entry("entry", e), Entry("stop_loss", sl),
          Entry("take_profit1", tp1), Entry("take_profit2", tp2)>>
  IN  IF signal = "LONG"
        THEN IF "bullish_ob" \in Keys(active_zones)
               THEN LET entry == Get(active_zones, "bullish_ob")[1].low
                    IN  levels(100 * entry, 102 * entry, 103 * entry, 105 * entry)
               ELSE levels(100 * current_price, 100 * swing_low,
                           103 * current_price, 100 * swing_high)
      ELSE IF signal = "SHORT"
        THEN IF "bearish_ob" \in Keys(active_zones)
               THEN LET entry == Get(active_zones, "bearish_ob")[1].high
                    IN  levels(100 * entry, 98 * entry, 97 * entry, 95 * entry)
               ELSE levels(100 * current_price, 100 * swing_high,
                           97 * current_price, 100 * swing_low)
      ELSE <<>>

\* entry / stop / targets, each held multiplied by 100 (0.98 is 98, ...)
EntryLevels(signal, active_zones, current_price, swing_high, swing_low) ==
  LET levels(e, sl, tp1, tp2) ==
        <<Entry("entry", e), Entry("stop_loss", sl),
          Entry("take_profit1", tp1), Entry("take_profit2", tp2)>>
  IN  IF signal = "LONG"
        THEN IF "bullish_ob" \in Keys(active_zones)
               THEN LET entry == Get(active_zones, "bullish_ob")[1].low
                    IN  levels(100 * entry, 98 * entry, 103 * entry, 105 * entry)
               ELSE levels(100 * current_price, 100 * swing_low,
                           103 * current_price, 100 * swing_high)
      ELSE IF signal = "SHORT"
        THEN IF "bearish_ob" \in Keys(active_zones)
               THEN LET entry == Get(active_zones, "bearish_ob")[1].high
                    IN  levels(100 * entry, 102 * entry, 97 * entry, 95 * entry)
               ELSE levels(100 * current_price, 100 * swing_high,
                           97 * current_price, 100 * swing_low)
      ELSE <<>>

\* the guard with the bound off by one: a frame of 49 bars passes
InsufficientFrame_OffByOne(d) == d = NoFrame \/ Len0(d) < MIN_BARS - 1

\* df is None or len(df) < 50
InsufficientFrame(d) == d = NoFrame \/ Len0(d) < MIN_BARS

\* the value returned for a missing or short frame
InsufficientData ==
  [signal |-> "NEUTRAL", confidence |-> 0,
   reasoning |-> <<Line("Insufficient data", "", 0, 0)>>,
   active_zones |-> <<>>, entry_levels |-> <<>>, current_price |-> 0]

\* what generate_signal reads off the frames before it scores (the detectors
\* and steps 1 to 3.5, and the swing range and OTE levels of step 5)
Analysis(d, lookback_days, h) ==
  LET n == Len0(d)
      current_timestamp == Bar(d, n - 1).ts
      swing_high == HighMax(d, Max2(0, n - lookback_days), n)
      swing_low == LowMin(d, Max2(0, n - lookback_days), n)
  IN  [indicators |-> get_all_ict_indicators(d),
       current_idx |-> n - 1,
       current_price |-> Bar(d, n - 1).close,
       kz |-> is_in_kill_zone(current_timestamp),
       pd_zone |-> calculate_premium_discount_zone(d, lookback_days),
       p3_phase |-> get_power_of_3_phase(current_timestamp),
       htf_bias_info |-> IF h # NoFrame THEN get_htf_bias(h)
                         ELSE [bias |-> "NEUTRAL", strength |-> 0,
                               reasoning |-> "No HTF data"],
       swing_high |-> swing_high, swing_low |-> swing_low,
       ote_levels |-> calculate_ote_levels(swing_high, swing_low)]

\* steps 4 to 9: what the rules add to bullish_points, bearish_points,
\* reasoning, confluence_breakdown and active_zones, in the order of the code
ConfluenceRules(d, lookback_days, a) ==
  LET current_idx == a.current_idx
      current_price == a.current_price
      zone == a.pd_zone.zone
      recent_obs == filter_recent_zones(a.indicators.order_blocks, current_idx,
                                        lookback_days)
      bullish_obs == SelectSeq(recent_obs, LAMBDA o : o.type = "bullish_ob")
      bearish_obs == SelectSeq(recent_obs, LAMBDA o : o.type = "bearish_ob")
      at_ote == AtOte(current_price, a.ote_levels)
      recent_fvgs == filter_recent_zones(a.indicators.fair_value_gaps, current_idx,
                                         lookback_days)
      bullish_fvgs == SelectSeq(recent_fvgs, LAMBDA f : f.type = "bullish_fvg")
      bearish_fvgs == SelectSeq(recent_fvgs, LAMBDA f : f.type = "bearish_fvg")
  IN  PlusAll(<<ChochRule(d, current_idx),
                BullishObRule(bullish_obs, current_price, at_ote, a.kz.in_zone),
                BearishObRule(bearish_obs, current_price, at_ote, a.kz.in_zone),
                BullishFvgRule(bullish_fvgs, current_price, zone),
                BearishFvgRule(bearish_fvgs, current_price, zone),
                SweepRule(a.indicators.liquidity_sweeps, current_idx),
                BosRule(a.indicators.market_structure, current_idx),
                DisplacementRule(a.indicators.displacements, current_idx)>>)

\* steps 10 and 11: the adjustments of the two scores, the final signal, the
\* confidence, the entry levels and the dictionary returned
Conclusion(h, a, rules) ==
  LET kz == a.kz
      kz_lines == IF kz.in_zone
                    THEN <<Line("Inside Kill Zone", kz.zone_name, 0, 0)>>
                         \o (IF kz.zone_name = "NEW_YORK_AM"
                               THEN <<Line("PRIME TIME for ICT setups", "", 0, 0)>>
                               ELSE <<>>)
                    ELSE <<Line("Outside kill zones (current weight)", "", kz.weight, 0),
                           Line("Lower probability - institutional activity is minimal",
                                "", 0, 0)>>
      zone == a.pd_zone.zone
      pd_lines == <<Line("Price in zone", a.pd_zone.detailed_zone,
                         a.pd_zone.price_position[1], a.pd_zone.price_position[2])>>
      p3_lines == <<Line("phase", a.p3_phase.phase, 0, 0)>>
      htf_lines == IF h # NoFrame
                     THEN <<Line("HTF Bias", a.htf_bias_info.bias,
                                 a.htf_bias_info.strength, 0),
                            Line("HTF reasoning", a.htf_bias_info.reasoning, 0, 0)>>
                     ELSE <<Line("HTF Bias: Not available", "", 0, 0)>>
      bull_kz == KillZoneWeighted(rules.bull, kz.weight)
      bear_kz == KillZoneWeighted(rules.bear, kz.weight)
      premium_penalty == PremiumPenalty(zone, bull_kz)
      discount_penalty == DiscountPenalty(zone, bear_kz)
      bull_pd == bull_kz - premium_penalty
      bear_pd == bear_kz - discount_penalty
      penalty_lines ==
        (IF zone = "PREMIUM" /\ bull_kz > 0
           THEN <<Line("LONG in PREMIUM zone - reduced confidence", "", premium_penalty, 0)>>
           ELSE <<>>)
        \o (IF zone = "DISCOUNT" /\ bear_kz > 0
              THEN <<Line("SHORT in DISCOUNT zone - reduced confidence", "",
                          discount_penalty, 0)>>
              ELSE <<>>)
      signal_direction == Direction(bull_pd, bear_pd)
      adjusted == IF h # NoFrame
                    THEN HtfAdjusted(signal_direction, a.htf_bias_info.bias, bull_pd, bear_pd)
                    ELSE [bull |-> bull_pd, bear |-> bear_pd, reasoning |-> <<>>]
      bullish_points == adjusted.bull
      bearish_points == adjusted.bear
      signal == FinalSignal(bullish_points, bearish_points)
      signal_points == IF signal = "LONG" THEN bullish_points
                       ELSE IF signal = "SHORT" THEN bearish_points ELSE 0
      neutral_lines == IF signal = "NEUTRAL"
                         THEN <<Line("Insufficient confluence - no clear signal", "", 0, 0)>>
                         ELSE <<>>
      confidence == Confidence(signal_points)
      reasoning == <<Line("Total Confluence", "", signal_points, confidence)>>
                   \o kz_lines \o pd_lines \o p3_lines \o htf_lines \o rules.reasoning
                   \o penalty_lines \o adjusted.reasoning \o neutral_lines
  IN  [ret |->
         [signal |-> signal, confidence |-> confidence, reasoning |-> reasoning,
          active_zones |-> rules.zones,
          entry_levels |-> EntryLevels(signal, rules.zones, a.current_price,
                                       a.swing_high, a.swing_low),
          current_price |-> a.current_price, ote_levels |-> a.ote_levels,
          bullish_score |-> bullish_points, bearish_score |-> bearish_points,
          all_indicators |-> a.indicators,
          kill_zone |-> IF kz.in_zone THEN kz.zone_name ELSE "OUTSIDE",
          premium_discount |-> a.pd_zone, power_of_3 |-> a.p3_phase.phase,
          htf_bias |-> a.htf_bias_info, confluence_breakdown |-> rules.details],
       locals |->
         [early |-> FALSE, raw_bull |-> rules.bull, raw_bear |-> rules.bear,
          kz_weight |-> kz.weight, weighted_bull |-> bull_kz, weighted_bear |-> bear_kz,
          zone |-> zone, penalized_bull |-> bull_pd, penalized_bear |-> bear_pd,
          signal_direction |-> signal_direction, signal_points |-> signal_points],
       calls |->
         <<"get_all_ict_indicators", "is_in_kill_zone",
           "calculate_premium_discount_zone", "get_power_of_3_phase">>
         \o (IF h # NoFrame THEN <<"get_htf_bias">> ELSE <<>>)
         \o <<"detect_choch", "filter_recent_zones", "calculate_ote_levels">>]

\* the scoring of a frame that passed the guard, from its analysis
Scored(d, lookback_days, h, a) == Conclusion(h, a, ConfluenceRules(d, lookback_days, a))

\* generate_signal(df, lookback_days, htf_df): [ret |-> the returned dictionary,
\* locals |-> the values of its local variables that the return value does not
\* carry, calls |-> the detectors and analyzers it invoked, in order]
generate_signal(d, lookback_days, h) ==
  IF InsufficientFrame(d)
    THEN [ret |-> InsufficientData, locals |-> [early |-> TRUE], calls |-> <<>>]
    ELSE Scored(d, lookback_days, h, Analysis(d, lookback_days, h))

\* df.index.get_indexer([target_date], method='nearest')[0]: the index of the
\* bar whose timestamp is nearest, the larger index on a tie, -1 for no bar
NearestIdx(d, target_date) ==
  IF Len0(d) = 0 THEN NoIndex
  ELSE LET dist(i) == Abs(Bar(d, i).ts - target_date)
           best == SetMin({dist(i) : i \in 0..(Len0(d) - 1)})
       IN  SetMax({i \in 0..(Len0(d) - 1) : dist(i) = best})

\* the history requirement without the third-of-the-data relief
MinRequired_Fixed(d) == MIN_BARS

\* min_required = min(50, len(df) // 3)
MinRequired(d) == Min2(MIN_BARS, Len0(d) \div 3)

\* the history check: TRUE when backtest_signal goes on to evaluate
HistoryCheck(d, target_idx, forward_periods) ==
  ~ (target_idx < MinRequired(d) \/ target_idx >= Len0(d) - forward_periods)

\* the truncation keeping one bar after the reference bar
HistoricalFrame_OneMore(d, target_idx) == Head2(d, target_idx + 2)

\* historical_df = df.iloc[:target_idx+1]
HistoricalFrame(d, target_idx) == Head2(d, target_idx + 1)

\* ((price - signal_price) / signal_price) * 100, as a quotient
PctChange(price, signal_price) == Quot((price - signal_price) * 100, signal_price)

\* the correctness flag with the thresholds included (>= 0.05, <= -0.05)
Correct_Inclusive(signal, price_change_pct) ==
  IF signal = "LONG" THEN ~ QuotLt(price_change_pct[1], price_change_pct[2], 5, 100)
  ELSE IF signal = "SHORT" THEN ~ QuotGt(price_change_pct[1], price_change_pct[2], -5, 100)
  ELSE FALSE

\* the correctness flag: False unless the signal is LONG and the change is
\* > 0.05, or the signal is SHORT and the change is < -0.05
Correct(signal, price_change_pct) ==
  IF signal = "LONG" THEN QuotGt(price_change_pct[1], price_change_pct[2], 5, 100)
  ELSE IF signal = "SHORT" THEN QuotLt(price_change_pct[1], price_change_pct[2], -5, 100)
  ELSE FALSE

\* the outcome of the signal over the following bars: the dictionary that
\* backtest_signal returns for the signal `result` given at bar target_idx
Outcome(d, target_date, forward_periods, target_idx, result) ==
  LET future_prices == [k \in 1..(Min2(target_idx + forward_periods + 1, Len0(d))
                                   - (target_idx + 1)) |->
                          Bar(d, target_idx + k).close]
  IN  IF Len(future_prices) = 0 THEN None
      ELSE
        LET signal_price == Bar(d, target_idx).close
            values == {future_prices[k] : k \in 1..Len(future_prices)}
            end_price == future_prices[Len(future_prices)]
            price_change_pct == PctChange(end_price, signal_price)
        IN  [type |-> "backtest", date |-> target_date,
             signal |-> result.signal, confidence |-> result.confidence,
             reasoning |-> result.reasoning, entry_price |-> signal_price,
             end_price |-> end_price, price_change_pct |-> price_change_pct,
             max_gain_pct |-> PctChange(SetMax(values), signal_price),
             max_loss_pct |-> PctChange(SetMin(values), signal_price),
             correct |-> Correct(result.signal, price_change_pct),
             active_zones |-> result.active_zones]

\* backtest_signal once the reference bar is found: the history check, the
\* truncation, the signal and its outcome
TestedAt(d, target_date, forward_periods, target_idx) ==
  IF ~ HistoryCheck(d, target_idx, forward_periods) THEN None
  ELSE Outcome(d, target_date, forward_periods, target_idx,
               generate_signal(HistoricalFrame(d, target_idx), LOOKBACK_DAYS, NoFrame).ret)

\* backtest_signal(df, target_date, forward_periods): the result dictionary, or
\* None.  No statement of the try block raises for a frame of numeric bars
\* (numpy divides by zero without raising), so the except branch is not taken.
backtest_signal(d, target_date, forward_periods) ==
  TestedAt(d, target_date, forward_periods, NearestIdx(d, target_date))

(***************************************************************************)
(* src/main.py: the verdict the backtest tab shows for a result.           *)
(***************************************************************************)
Banner(result) ==
  IF result = None THEN "Unable to test this time - not enough data available."
  ELSE IF result.correct THEN "CORRECT" ELSE "WRONG"

(***************************************************************************)
(* The market data the program is run on.  A frame is a quiet stretch      *)
(* (two alternating candles around 2000) followed by one of four recorded  *)
(* sessions of sixteen candles <<open, high, low, close, volume>>; frames  *)
(* with a zeroed candle, frames that are too short and a missing frame     *)
(* complete the catalogue.                                                 *)
(***************************************************************************)
\* number of quiet candles before a session
QuietLen == 40

\* a session is also fetched with up to MaxDrop of its last candles missing
MaxDrop == 1

\* number of candles of a higher-timeframe frame
HtfLen == 21

\* candles that follow the session in a frame of the backtest tab
FutureLen == 3

\* the largest forward_periods the backtest tab is run with
MaxHorizon == 2

\* extra quiet candles of the long history (more than 150 candles in all)
LongHistory == 96

\* quiet candles of the short history (fewer than 50 candles in all)
ShortHistory == 6

MkBar(t, b) ==
  [ts |-> t, open |-> b[1], high |-> b[2], low |-> b[3], close |-> b[4], volume |-> b[5]]

\* a frame of hourly candles starting at timestamp t0
Frame(t0, candles) == [k \in 1..Len(candles) |-> MkBar(t0 + k - 1, candles[k])]

\* the candles of a frame, without their timestamps
Candles(d) ==
  [k \in 1..Len(d) |-> <<d[k].open, d[k].high, d[k].low, d[k].close, d[k].volume>>]

\* n quiet candles, the last one closing at 2000
Quiet(n) ==
  [k \in 1..n |-> IF (n - k) % 2 = 1 THEN <<2000, 2005, 1995, 2002, 100>>
                  ELSE <<2002, 2005, 1995, 2000, 100>>]

SessionA ==
  << <<2000, 2020, 1990, 1990, 50>>, <<1990, 1992, 1943, 1945, 100>>, <<1990, 2055, 1970, 2035, 200>>,
     <<2035, 2065, 2033, 2045, 100>>, <<2045, 2050, 2035, 2035, 100>>, <<2035, 2035, 2030, 2035, 50>>,
     <<2035, 2035, 2003, 2005, 100>>, <<2050, 2052, 2035, 2040, 200>>, <<1995, 1997, 1993, 1993, 200>>,
     <<1993, 2058, 1973, 2038, 100>>, <<2038, 2050, 2038, 2048, 100>>, <<2003, 2023, 1953, 1958, 100>>,
     <<1958, 2008, 1953, 1988, 50>>, <<1988, 2000, 1968, 1998, 100>>, <<1998, 2033, 1993, 2028, 100>>,
     <<2028, 2063, 2028, 2058, 200>> >>

SessionL ==
  << <<2000, 2020, 1940, 1940, 100>>, <<1940, 1950, 1938, 1950, 100>>, <<1995, 1995, 1950, 1950, 100>>,
     <<1995, 2057, 1975, 2055, 50>>, <<2055, 2057, 2010, 2010, 200>>, <<2010, 2010, 1950, 1950, 100>>,
     <<1995, 2002, 1995, 1997, 200>>, <<1997, 1999, 1977, 1999, 50>>, <<1954, 1959, 1939, 1944, 100>>,
     <<1944, 1954, 1944, 1954, 200>>, <<1954, 1974, 1924, 1924, 100>>, <<1924, 1931, 1919, 1926, 50>>,
     <<1926, 1986, 1921, 1986, 200>>, <<2031, 2096, 2029, 2076, 100>>, <<2076, 2078, 2076, 2078, 100>>,
     <<2078, 2098, 1980, 2000, 100>> >>

SessionS ==
  << <<2000, 2000, 1955, 1955, 200>>, <<1955, 1957, 1920, 1925, 100>>, <<1880, 1945, 1860, 1925, 100>>,
     <<1925, 1927, 1920, 1927, 100>>, <<1927, 1932, 1915, 1917, 100>>, <<1917, 1917, 1913, 1915, 100>>,
     <<1915, 1927, 1910, 1925, 100>>, <<1925, 1927, 1845, 1865, 50>>, <<1910, 1972, 1890, 1970, 100>>,
     <<1970, 1972, 1966, 1968, 200>>, <<1968, 2033, 1968, 2028, 50>>, <<2028, 2048, 1996, 1998, 200>>,
     <<1998, 2018, 1986, 1988, 200>>, <<2033, 2098, 2033, 2093, 100>>, <<2093, 2113, 2033, 2033, 200>>,
     <<2033, 2035, 1998, 2000, 200>> >>

SessionW ==
  << <<2000, 2005, 1938, 1940, 100>>, <<1940, 2002, 1938, 2000, 100>>, <<2000, 2065, 1980, 2060, 200>>,
     <<2060, 2080, 2025, 2030, 100>>, <<2030, 2030, 1985, 1985, 200>>, <<1985, 1990, 1940, 1940, 50>>,
     <<1940, 1945, 1875, 1895, 100>>, <<1895, 1915, 1830, 1850, 100>>, <<1895, 1975, 1895, 1955, 100>>,
     <<1955, 1960, 1933, 1953, 50>>, <<1998, 1998, 1953, 1953, 100>>, <<1998, 1998, 1933, 1938, 100>>,
     <<1938, 1940, 1891, 1893, 200>>, <<1938, 1958, 1873, 1893, 100>>, <<1938, 1940, 1906, 1908, 100>>,
     <<1908, 1912, 1906, 1910, 100>> >>

Sessions == {SessionA, SessionL, SessionS, SessionW}

ZeroCandle == <<0, 0, 0, 0, 0>>

\* the first timestamp of a frame of n candles whose last candle opens at
\* est_hour o'clock New York time
StartFor(n, est_hour) == (est_hour + 5 + 24 * n - (n - 1)) % 24

\* the frame with the same candles whose last candle opens at est_hour
Retimed(d, est_hour) ==
  IF d = NoFrame THEN NoFrame ELSE Frame(StartFor(Len(d), est_hour), Candles(d))

\* candles with candle number i (0-based) replaced
WithCandle(candles, i, c) == [candles EXCEPT ![i + 1] = c]

\* hours (New York time) of the last candle: 11 is outside every kill zone,
\* 8 is NEW_YORK_AM, 2 is LONDON
FetchHours == {8, 11}

RefetchHours == {2, 8, 11}

\* the candle sequences of the live tab
LiveCandles ==
  {SubSeq(Quiet(QuietLen) \o s, 1, QuietLen + Len(s) - k) :
     s \in Sessions, k \in 0..MaxDrop}
  \cup {WithCandle(Quiet(QuietLen) \o SessionA, QuietLen + Len(SessionA) - k, ZeroCandle) :
          k \in {1, 2, 8}}
  \cup {WithCandle(Quiet(QuietLen) \o SessionS, QuietLen + Len(SessionS) - 3, ZeroCandle)}
  \cup {[k \in 1..MIN_BARS |-> ZeroCandle]}

\* frames that generate_signal rejects
ShortFrames == {NoFrame, <<>>, Frame(0, Quiet(1)), Frame(0, Quiet(MIN_BARS - 1))}

LiveFrames ==
  {Frame(StartFor(Len(c), h), c) : c \in LiveCandles, h \in FetchHours} \cup ShortFrames

\* higher-timeframe frames: rising, falling, too short for a bias, or none
Rising(n) ==
  [k \in 1..n |-> <<1000 + 10 * (k - 1), 1005 + 10 * (k - 1),
                    995 + 10 * (k - 1), 1002 + 10 * (k - 1), 100>>]

Falling(n) ==
  [k \in 1..n |-> <<3000 - 10 * (k - 1), 3005 - 10 * (k - 1),
                    2995 - 10 * (k - 1), 2998 - 10 * (k - 1), 100>>]

HtfFrames ==
  {NoFrame, Frame(0, Rising(HtfLen)), Frame(0, Falling(HtfLen)),
   Frame(0, Quiet(HTF_MIN_BARS - 1))}

\* n candles after a close of c0, each moving the price by delta
Walk(c0, delta, n) ==
  [k \in 1..n |->
     <<c0 + (k - 1) * delta, Max2(c0 + (k - 1) * delta, c0 + k * delta) + 2,
       Min2(c0 + (k - 1) * delta, c0 + k * delta) - 2, c0 + k * delta, 100>>]

\* price moves per candle after the session: -0.05%, none, +0.05% of 2000
Deltas == {-1, 0, 1}

\* the histories of the backtest tab: three sessions after the quiet stretch,
\* one after a long quiet stretch, and a short quiet one
Histories ==
  {Quiet(QuietLen) \o s : s \in {SessionA, SessionL, SessionS}}
  \cup {Quiet(QuietLen + LongHistory) \o SessionL, Quiet(ShortHistory)}

\* a history whose last candle opens at 8 o'clock (NEW_YORK_AM), followed by
\* FutureLen candles
BacktestFrames ==
  {Frame(StartFor(Len(b), 8), b \o Walk(b[Len(b)][4], delta, FutureLen)) :
     b \in Histories, delta \in Deltas}

\* the frame a later fetch returns: candles cut, cut+1, ... replaced
Revised(d, cut, delta) ==
  Frame(d[1].ts, SubSeq(Candles(d), 1, cut) \o Walk(d[cut].close, delta, Len(d) - cut))

Cuts(d) == {Len(d) - FutureLen - 1, Len(d) - FutureLen}

\* the reference timestamps tried: the candles around the two edges of the
\* history check, and a timestamp before and after the frame
Targets(d) ==
  {Bar(d, i).ts : i \in {MinRequired(d) - 1, MinRequired(d), Len(d) - FutureLen - 1,
                         Len(d) - FutureLen, Len(d) - 2, Len(d) - 1}
                        \cap 0..(Len(d) - 1)}
  \cup {Bar(d, 0).ts - 3, Bar(d, Len(d) - 1).ts + 3}

(***************************************************************************)
(* The live tab (src/main.py 115-164): data is fetched, generate_signal is *)
(* run on it, and a later fetch finds the same candles at another hour.    *)
(***************************************************************************)
Idle ==
  /\ signal_result = None /\ trace = None /\ previous = None
  /\ backtest_args = None /\ backtest_result = None /\ previous_backtest = None
  /\ banner = ""
  /\ call = None /\ returned = None

Init == df \in LiveFrames /\ htf_df \in HtfFrames /\ Idle

GenerateSignal ==
  /\ signal_result = None
  /\ LET r == generate_signal(df, LOOKBACK_DAYS, htf_df)
     IN  /\ signal_result' = r.ret
         /\ trace' = [type |-> "trace", locals |-> r.locals, calls |-> r.calls]
  /\ UNCHANGED <<df, htf_df, previous, backtest_args, backtest_result,
                 previous_backtest, banner, call, returned>>

Refetch(est_hour) ==
  /\ signal_result # None
  /\ previous = None
  /\ previous' = [type |-> "evaluation", df |-> df, htf_df |-> htf_df,
                  result |-> signal_result, trace |-> trace]
  /\ df' = Retimed(df, est_hour)
  /\ signal_result' = None
  /\ trace' = None
  /\ UNCHANGED <<htf_df, backtest_args, backtest_result, previous_backtest, banner,
                 call, returned>>

Next == GenerateSignal \/ \E est_hour \in RefetchHours : Refetch(est_hour)

Spec == Init /\ [][Next]_vars

(***************************************************************************)
(* The backtest tab (src/main.py 371-442): the Test button runs            *)
(* backtest_signal on the fetched frame and shows the verdict; a rerun of  *)
(* the page fetches again, the later candles revised, and tests the same   *)
(* reference timestamp and horizon.                                        *)
(***************************************************************************)
BacktestInit == df \in BacktestFrames /\ htf_df = NoFrame /\ Idle

Backtest(target_date, forward_periods) ==
  /\ backtest_args = None
  /\ backtest_args' = [type |-> "args", target_date |-> target_date,
                       forward_periods |-> forward_periods]
  /\ LET result == backtest_signal(df, target_date, forward_periods)
     IN  backtest_result' = result /\ banner' = Banner(result)
  /\ UNCHANGED <<df, htf_df, signal_result, trace, previous, previous_backtest,
                 call, returned>>

Rerun(cut, delta) ==
  /\ backtest_args # None
  /\ previous_backtest = None
  /\ previous_backtest' = [type |-> "backtest_run", df |-> df, result |-> backtest_result]
  /\ df' = Revised(df, cut, delta)
  /\ LET result == backtest_signal(Revised(df, cut, delta), backtest_args.target_date,
                                   backtest_args.forward_periods)
     IN  backtest_result' = result /\ banner' = Banner(result)
  /\ UNCHANGED <<htf_df, signal_result, trace, previous, backtest_args, call, returned>>

BacktestNext ==
  \/ \E target_date \in Targets(df), forward_periods \in 1..MaxHorizon :
       Backtest(target_date, forward_periods)
  \/ \E cut \in Cuts(df), delta \in Deltas : Rerun(cut, delta)

BacktestSpec == BacktestInit /\ [][BacktestNext]_vars

(***************************************************************************)
(* The helper functions called on their own: one call, its arguments kept  *)
(* in `call` and the value it returns in `returned`.                       *)
(***************************************************************************)
\* how far below the zone's low and above its high the prices tried reach
NearSpan == 24

\* the zones [low, high] tried: a range of 100, a range of 0, and a zone
\* whose high lies below its low
NearZones == {<<1000, 1100>>, <<1000, 1000>>, <<1000, 990>>}

\* the prices tried against a zone: around its low and around its high
NearPrices(zone) ==
  ((zone[1] - NearSpan)..(zone[1] + 2)) \cup ((zone[2] - 2)..(zone[2] + NearSpan))

\* the higher-timeframe frames tried have HTF_MIN_BARS - 1 up to
\* HTF_MIN_BARS + BiasExtra candles
BiasExtra == 2

\* a candles rising by 10 from 1000, then b candles falling by 10
Turn(a, b) == Walk(1000, 10, a) \o Walk(1000 + 10 * a, -10, b)

\* one candle far above, then n rising candles
SpikeThenRise(n) == << <<5000, 5005, 4995, 5000, 100>> >> \o Walk(1000, 10, n)

\* one candle far below, then n falling candles
DipThenFall(n) == << <<100, 105, 95, 100, 100>> >> \o Walk(3000, -10, n)

BiasFrames ==
  {NoFrame, <<>>}
  \cup {Frame(0, Turn(a, n - a)) :
          n \in (HTF_MIN_BARS - 1)..(HTF_MIN_BARS + BiasExtra), a \in {0, 5, 10, 12, 15, 19}}
  \cup {Frame(0, Quiet(n)) : n \in (HTF_MIN_BARS - 1)..(HTF_MIN_BARS + BiasExtra)}
  \cup {Frame(0, SpikeThenRise(n - 1)) : n \in HTF_MIN_BARS..(HTF_MIN_BARS + BiasExtra)}
  \cup {Frame(0, DipThenFall(n - 1)) : n \in HTF_MIN_BARS..(HTF_MIN_BARS + BiasExtra)}

\* the frames tried with calculate_premium_discount_zone have 1..RangeLen
\* candles, and the lookbacks are 1..RangeLen
RangeLen == 2

\* price levels of the last candle: tenths of a range of 10 above 100
RangeLevels == {100, 102, 103, 105, 107, 108, 110}

\* price levels of the candles before the last
EarlierLevels == {100, 105, 110}

\* every candle on the levels with low <= open = close <= high
CandlesOn(levels) ==
  {<<c, h, l, c, 100>> : <<l, c, h>> \in
     {t \in levels \X levels \X levels : t[1] <= t[2] /\ t[2] <= t[3]}}

RangeFrames ==
  {Frame(0, earlier \o <<last>>) :
     earlier \in UNION {[1..n -> CandlesOn(EarlierLevels)] : n \in 0..(RangeLen - 1)},
     last \in CandlesOn(RangeLevels)}

\* the frames tried with detect_session_liquidity have 0..SessionBars hourly
\* candles and start at any hour of the day
SessionBars == 4

SessionCandles ==
  {<<100, 110, 90, 100, 100>>, <<100, 105, 95, 100, 100>>, <<100, 120, 80, 100, 100>>}

SessionFrames ==
  {Frame(t0, cs) : t0 \in 0..23,
                   cs \in UNION {[1..n -> SessionCandles] : n \in 0..SessionBars}}

\* the frames tried with detect_order_blocks: up to PatternPre quiet candles,
\* a candle of one colour, up to PatternGap quiet candles, a 2% move the other
\* way, and up to one quiet candle after it
PatternPre == 25

PatternGap == 21

\* n candles that open and close at the price c
Dojis(c, n) == [k \in 1..n |-> <<c, c + 2, c - 2, c, 100>>]

\* dir = 1: a bearish candle (a doji when opposite is FALSE), then a move up
\* of 2%; dir = -1: a bullish candle, then a move down of 2%
Pattern(dir, opposite, pre, gap, post) ==
  Dojis(1000, pre)
  \o << IF opposite THEN <<1000 + dir, 1003, 997, 1000, 100>>
        ELSE <<1000, 1003, 997, 1000, 100>> >>
  \o Dojis(1000, gap)
  \o << <<1000, 1000 + 10 * (dir + 1) + 1, 1000 + 10 * (dir - 1) - 1,
          1000 + 20 * dir, 100>> >>
  \o Dojis(1000 + 20 * dir, post)

PatternFrames ==
  {Frame(0, Pattern(dir, opposite, pre, gap, post)) :
     dir \in {-1, 1}, opposite \in BOOLEAN,
     pre \in 0..PatternPre, gap \in 0..PatternGap, post \in 0..1}

\* the frames tried with detect_fair_value_gaps have 0..GapBars candles
GapBars == 3

GapLevels == {100, 105, 110}

GapFrames ==
  {Frame(0, cs) : cs \in UNION {[1..n -> CandlesOn(GapLevels)] : n \in 0..GapBars}}

\* the frames tried with detect_market_structure_shift: five legs of candles,
\* alternately with and against dir, each leg of SWING_LENGTH - 1 .. SwingLeg
\* candles moving the price by 10
SwingLeg == 6

RECURSIVE Legs(_, _, _)
Legs(c0, dir, lens) ==
  IF lens = <<>> THEN <<>>
  ELSE Walk(c0, 10 * dir, Head(lens))
         \o Legs(c0 + 10 * dir * Head(lens), -dir, Tail(lens))

SwingFrames ==
  {Frame(0, Legs(1000, dir, lens)) :
     dir \in {-1, 1}, lens \in [1..5 -> (SWING_LENGTH - 1)..SwingLeg]}

\* frames tried with get_all_ict_indicators: the candles of the live tab;
\* quiet candles, a bullish candle, a bearish candle, a candle that opens
\* above, closes 2% up and below its open, and a candle closing 2.5% down;
\* and quiet candles with one or two candles apart from their neighbours
CrossedBlocks(pre) ==
  Dojis(1000, pre)
  \o << <<999, 1003, 997, 1000, 100>>, <<1001, 1003, 997, 1000, 100>>,
        <<1030, 1031, 1019, 1020, 100>>, <<1020, 1021, 994, 995, 100>> >>
  \o Dojis(995, 1)

Isolated(n, k, c) ==
  [i \in 1..n |-> IF i - 1 = k THEN <<c, c + 2, c - 2, c, 100>>
                  ELSE <<1000, 1002, 998, 1000, 100>>]

IndicatorFrames ==
  {Frame(0, cs) : cs \in LiveCandles}
  \cup {Frame(0, CrossedBlocks(pre)) : pre \in 0..PatternPre}
  \cup {Frame(0, Isolated(n, k, c) \o more) :
          n \in 1..(GapBars + 2), k \in 0..(GapBars + 1), c \in {900, 1100},
          more \in {<<>>, Isolated(3, 1, 900), Isolated(3, 1, 1100)}}

\* frames tried with detect_choch: candles at 900, then candles at 1000 from
\* five bars before a candle with a low at 990 (index swing_at); gap bars
\* after it a candle closing at 985 on half the volume; then tail candles
ChochSpan == 3

ChochTail == 12

Staircase(swing_at, gap, tail) ==
  [k \in 1..(swing_at + gap + 1 + tail) |->
     IF k - 1 = swing_at THEN <<1000, 1002, 990, 1000, 100>>
     ELSE IF k - 1 = swing_at + gap THEN <<1000, 1002, 983, 985, 50>>
     ELSE IF k - 1 < swing_at - 5 THEN <<900, 902, 898, 900, 100>>
     ELSE <<1000, 1002, 998, 1000, 100>>]

ChochFrames ==
  {Frame(0, cs) : cs \in LiveCandles}
  \cup {Frame(0, Staircase(swing_at, gap, tail)) :
          swing_at \in (CHOCH_LOOKBACK - ChochSpan)..(CHOCH_LOOKBACK + 1),
          gap \in {SWING_LENGTH + e : e \in 0..2} \cup {CHOCH_LOOKBACK - e : e \in 0..2},
          tail \in 0..ChochTail}

Returned(value) == [type |-> "returned", value |-> value]

HelperInit == df = NoFrame /\ htf_df = NoFrame /\ Idle

CheckPriceNearZone(current_price, zone_high, zone_low) ==
  /\ call = None
  /\ call' = [fn |-> "check_price_near_zone", current_price |-> current_price,
               zone_high |-> zone_high, zone_low |-> zone_low]
  /\ returned' = Returned(check_price_near_zone(current_price, zone_high, zone_low))
  /\ UNCHANGED <<df, htf_df, signal_result, trace, previous, backtest_args,
                 backtest_result, previous_backtest, banner>>

GetHtfBias(h) ==
  /\ call = None
  /\ call' = [fn |-> "get_htf_bias", df |-> h]
  /\ returned' = Returned(get_htf_bias(h))
  /\ UNCHANGED <<df, htf_df, signal_result, trace, previous, backtest_args,
                 backtest_result, previous_backtest, banner>>

CalculatePremiumDiscountZone(d, lookback) ==
  /\ call = None
  /\ call' = [fn |-> "calculate_premium_discount_zone", df |-> d, lookback |-> lookback]
  /\ returned' = Returned(calculate_premium_discount_zone(d, lookback))
  /\ UNCHANGED <<df, htf_df, signal_result, trace, previous, backtest_args,
                 backtest_result, previous_backtest, banner>>

DetectSessionLiquidity(d) ==
  /\ call = None
  /\ call' = [fn |-> "detect_session_liquidity", df |-> d]
  /\ returned' = Returned(detect_session_liquidity(d))
  /\ UNCHANGED <<df, htf_df, signal_result, trace, previous, backtest_args,
                 backtest_result, previous_backtest, banner>>

DetectOrderBlocks(d) ==
  /\ call = None
  /\ call' = [fn |-> "detect_order_blocks", df |-> d]
  /\ returned' = Returned(detect_order_blocks(d))
  /\ UNCHANGED <<df, htf_df, signal_result, trace, previous, backtest_args,
                 backtest_result, previous_backtest, banner>>

DetectFairValueGaps(d) ==
  /\ call = None
  /\ call' = [fn |-> "detect_fair_value_gaps", df |-> d]
  /\ returned' = Returned(detect_fair_value_gaps(d))
  /\ UNCHANGED <<df, htf_df, signal_result, trace, previous, backtest_args,
                 backtest_result, previous_backtest, banner>>

DetectMarketStructureShift(d) ==
  /\ call = None
  /\ call' = [fn |-> "detect_market_structure_shift", df |-> d]
  /\ returned' = Returned(detect_market_structure_shift(d))
  /\ UNCHANGED <<df, htf_df, signal_result, trace, previous, backtest_args,
                 backtest_result, previous_backtest, banner>>

GetAllIctIndicators(d) ==
  /\ call = None
  /\ call' = [fn |-> "get_all_ict_indicators", df |-> d]
  /\ returned' = Returned(get_all_ict_indicators(d))
  /\ UNCHANGED <<df, htf_df, signal_result, trace, previous, backtest_args,
                 backtest_result, previous_backtest, banner>>

DetectChoch(d) ==
  /\ call = None
  /\ call' = [fn |-> "detect_choch", df |-> d]
  /\ returned' = Returned(detect_choch(d, SWING_LENGTH, CHOCH_LOOKBACK))
  /\ UNCHANGED <<df, htf_df, signal_result, trace, previous, backtest_args,
                 backtest_result, previous_backtest, banner>>

\* generate_signal(df) with its default arguments
GenerateSignalAlone(d) ==
  /\ call = None
  /\ call' = [fn |-> "generate_signal", df |-> d]
  /\ returned' = Returned(generate_signal(d, LOOKBACK_DAYS, NoFrame).ret)
  /\ UNCHANGED <<df, htf_df, signal_result, trace, previous, backtest_args,
                 backtest_result, previous_backtest, banner>>

HelperNext ==
  \/ /\ call = None
     /\ \E d \in RangeFrames : \E lookback \in 1..RangeLen :
          CalculatePremiumDiscountZone(d, lookback)
  \/ /\ call = None
     /\ \E zone \in NearZones : \E current_price \in NearPrices(zone) :
          CheckPriceNearZone(current_price, zone[2], zone[1])
  \/ /\ call = None
     /\ \E h \in BiasFrames : GetHtfBias(h)
  \/ /\ call = None
     /\ \E d \in SessionFrames : DetectSessionLiquidity(d)
  \/ /\ call = None
     /\ \E d \in PatternFrames : DetectOrderBlocks(d)
  \/ /\ call = None
     /\ \E d \in GapFrames : DetectFairValueGaps(d)
  \/ /\ call = None
     /\ \E d \in SwingFrames : DetectMarketStructureShift(d)
  \/ /\ call = None
     /\ \E d \in IndicatorFrames : GetAllIctIndicators(d)
  \/ /\ call = None
     /\ \E d \in ChochFrames : DetectChoch(d)
  \/ /\ call = None
     /\ \E d \in ChochFrames : GenerateSignalAlone(d)

HelperSpec == HelperInit /\ [][HelperNext]_vars

(***************************************************************************)
(* Properties.                                                             *)
(***************************************************************************)
\* generate_signal has run on the fetched frame
Evaluated == signal_result # None

\* a frame of at least 50 bars
LengthValid(d) == d # NoFrame /\ Len0(d) >= 50

\* the direction the scores give before the higher-timeframe adjustment
Provisional == trace.locals.signal_direction

\* the higher-timeframe bias opposes the provisional direction
Opposed ==
  /\ htf_df # NoFrame
  /\ \/ Provisional = "LONG" /\ signal_result.htf_bias.bias = "BEARISH"
     \/ Provisional = "SHORT" /\ signal_result.htf_bias.bias = "BULLISH"

\* n = floor(num / den) for den > 0
IsFloor(n, num, den) == n * den <= num /\ num < (n + 1) * den

AgreeUpTo(d1, d2, t) ==
  /\ Len0(d1) = Len0(d2)
  /\ \A i \in 0..t : Bar(d1, i) = Bar(d2, i)

\* both runs of the backtest returned a result
BothTested ==
  /\ previous_backtest # None /\ previous_backtest.result # None
  /\ backtest_result # None

\* C2: two backtests with the same reference timestamp and horizon, on frames
\* of the same length that agree on every bar up to and including the
\* reference bar, return the same signal, confidence, reasoning and active
\* zones.
C2_NoLookAhead ==
  (/\ BothTested
   /\ AgreeUpTo(previous_backtest.df, df, NearestIdx(df, backtest_args.target_date))) =>
    /\ backtest_result.signal = previous_backtest.result.signal
    /\ backtest_result.confidence = previous_backtest.result.confidence
    /\ backtest_result.reasoning = previous_backtest.result.reasoning
    /\ backtest_result.active_zones = previous_backtest.result.active_zones

\* two backtests of a LONG or SHORT signal on frames that differ after the
\* reference bar and end at different prices
C2_Witness ==
  /\ BothTested
  /\ AgreeUpTo(previous_backtest.df, df, NearestIdx(df, backtest_args.target_date))
  /\ previous_backtest.df # df
  /\ backtest_result.signal # "NEUTRAL"
  /\ backtest_result.end_price # previous_backtest.result.end_price

\* C3: for a missing frame and for a frame of fewer than 50 bars,
\* generate_signal returns NEUTRAL, confidence 0 and a reasoning list of one
\* element, and calls no detector or analyzer.
C3_ShortFrameRejected ==
  (Evaluated /\ (df = NoFrame \/ Len0(df) < 50)) =>
    /\ signal_result.signal = "NEUTRAL"
    /\ signal_result.confidence = 0
    /\ Len(signal_result.reasoning) = 1
    /\ trace.calls = <<>>

\* generate_signal has run on a frame of 49 bars
C3_Witness == Evaluated /\ df # NoFrame /\ Len0(df) = 49 /\ trace.calls = <<>>

\* C4: for every frame of at least 50 bars, with or without a
\* higher-timeframe frame, generate_signal returns a result whose signal is
\* LONG, SHORT or NEUTRAL and whose confidence is an integer in 0..100.
C4_Total ==
  (Evaluated /\ LengthValid(df)) =>
    /\ signal_result.signal \in {"LONG", "SHORT", "NEUTRAL"}
    /\ signal_result.confidence \in 0..100

\* a result with the confidence at its cap, and a result for a frame whose
\* last close is zero
C4_Witness ==
  /\ Evaluated /\ LengthValid(df)
  /\ \/ signal_result.confidence = 100 /\ htf_df # NoFrame
     \/ signal_result.current_price = 0

\* the winning adjusted score of a result
Winning(result) ==
  IF result.signal = "LONG" THEN result.bullish_score
  ELSE IF result.signal = "SHORT" THEN result.bearish_score
  ELSE 0

\* the tier of a score: [0,6), [6,13), [13,21), [21,inf)
Tier(score) ==
  IF score >= 21 * ScoreScale THEN 4
  ELSE IF score >= 13 * ScoreScale THEN 3
  ELSE IF score >= 6 * ScoreScale THEN 2
  ELSE 1

\* the confidence the tiers prescribe for a winning score
Prescribed(confidence, score) ==
  \E f \in 0..100 :
    CASE Tier(score) = 4 ->
           /\ IsFloor(f, score - 21 * ScoreScale, ScoreScale)
           /\ confidence = Min2(100, 80 + f)
      [] Tier(score) = 3 ->
           /\ IsFloor(f, (score - 13 * ScoreScale) * 5, 2 * ScoreScale)
           /\ confidence = 60 + f
      [] Tier(score) = 2 ->
           /\ IsFloor(f, (score - 6 * ScoreScale) * 5, ScoreScale)
           /\ confidence = 30 + f
      [] Tier(score) = 1 ->
           /\ IsFloor(f, score * 6, ScoreScale)
           /\ confidence = Min2(30, f)

\* C5: the confidence is computed from the winning adjusted score S as
\* S >= 21 -> min(100, 80 + floor(S - 21)); 13 <= S < 21 -> 60 + floor((S - 13) * 2.5);
\* 6 <= S < 13 -> 30 + floor((S - 6) * 5); S < 6 -> min(30, floor(S * 6)); of two
\* evaluations whose scores lie in the same tier the one with the larger score
\* has the larger or equal confidence, and the confidence never exceeds 100.
C5_ConfidenceTiers ==
  (Evaluated /\ LengthValid(df)) =>
    /\ Prescribed(signal_result.confidence, Winning(signal_result))
    /\ signal_result.confidence <= 100
    /\ (/\ previous # None
        /\ Tier(Winning(previous.result)) = Tier(Winning(signal_result))
        /\ Winning(previous.result) <= Winning(signal_result))
         => previous.result.confidence <= signal_result.confidence

\* two evaluations with different scores in the tier [13,21), the later one
\* with the larger score and a confidence strictly between 60 and 80
C5_Witness ==
  /\ Evaluated /\ LengthValid(df) /\ previous # None
  /\ Tier(Winning(previous.result)) = 3 /\ Tier(Winning(signal_result)) = 3
  /\ Winning(previous.result) < Winning(signal_result)
  /\ signal_result.confidence > 60 /\ signal_result.confidence < 80

\* the reference bar and the horizon of the backtest that has run
TargetIdx == NearestIdx(df, backtest_args.target_date)

Horizon == backtest_args.forward_periods

\* the closes the percentage change is taken between
RefClose == Bar(df, TargetIdx).close

EndClose == Bar(df, TargetIdx + Horizon).close

\* C6: in every result of backtest_signal, with change the percentage change
\* from the reference bar's close to the close forward_periods bars later, a
\* LONG signal is labelled correct iff change > +0.05 and a SHORT signal iff
\* change < -0.05.
C6_CorrectThreshold ==
  (backtest_result # None /\ RefClose > 0) =>
    /\ backtest_result.signal = "LONG" =>
         (backtest_result.correct <=> (EndClose - RefClose) * 10000 > 5 * RefClose)
    /\ backtest_result.signal = "SHORT" =>
         (backtest_result.correct <=> (EndClose - RefClose) * 10000 < -5 * RefClose)

\* a LONG signal followed by a change of exactly +0.05%, labelled not correct
C6_Witness ==
  /\ backtest_result # None
  /\ backtest_result.signal = "LONG"
  /\ (EndClose - RefClose) * 10000 = 5 * RefClose
  /\ ~ backtest_result.correct

\* C7: when the signal at the reference bar is NEUTRAL, the result of
\* backtest_signal carries no correctness label: it is marked neither correct
\* nor incorrect, and the backtest tab shows neither verdict.
C7_NeutralUnlabelled ==
  (backtest_result # None /\ backtest_result.signal = "NEUTRAL") =>
    /\ backtest_result.correct \notin BOOLEAN
    /\ banner \notin {"CORRECT", "WRONG"}

\* C8: for a frame of N bars, the bar t nearest the reference timestamp and a
\* horizon h >= 1, backtest_signal returns None exactly when
\* t < floor(min(50, N/3)) or t > N-1-h, and otherwise a result whose end
\* price is the close of bar t+h.
C8_HistoryCheck ==
  backtest_args # None =>
    LET N == Len0(df)
        t == TargetIdx
        h == Horizon
        too_early == t < 50 /\ 3 * (t + 1) <= N
        too_late == t > N - 1 - h
    IN  /\ backtest_result = None <=> (too_early \/ too_late)
        /\ backtest_result # None =>
             /\ t + h <= N - 1
             /\ backtest_result.end_price = Bar(df, t + h).close

\* a result for the first bar that passes, in a frame of fewer than 150 bars
C8_Witness ==
  /\ backtest_args # None /\ backtest_result # None
  /\ Len0(df) < 150 /\ TargetIdx = Len0(df) \div 3
  /\ backtest_result.end_price = EndClose

\* the two evaluations of the same candles and higher-timeframe frame, one
\* with the last bar outside every kill zone and one in NEW_YORK_AM
KillZonePair ==
  /\ Evaluated /\ LengthValid(df) /\ previous # None
  /\ Candles(previous.df) = Candles(df)
  /\ previous.htf_df = htf_df
  /\ {previous.result.kill_zone, signal_result.kill_zone} = {"OUTSIDE", "NEW_YORK_AM"}

OutsideResult ==
  IF signal_result.kill_zone = "OUTSIDE" THEN signal_result ELSE previous.result

KillZoneResult ==
  IF signal_result.kill_zone = "OUTSIDE" THEN previous.result ELSE signal_result

\* C9 as stated: of two evaluations that differ only in the last bar's
\* timestamp, OUTSIDE every kill zone in one and in NEW_YORK_AM in the other,
\* the OUTSIDE one has the lower or equal confidence.
C9_OutsideNotHigher ==
  KillZonePair => OutsideResult.confidence <= KillZoneResult.confidence

\* C9 amended: the same, provided the NEW_YORK_AM evaluation reports LONG or
\* SHORT.
C9_OutsideNotHigherThanDirected ==
  (KillZonePair /\ KillZoneResult.signal \in {"LONG", "SHORT"}) =>
    OutsideResult.confidence <= KillZoneResult.confidence

\* a pair in which both evaluations report a direction and the OUTSIDE one has
\* the strictly lower, positive confidence
C9_Witness ==
  /\ KillZonePair
  /\ KillZoneResult.signal \in {"LONG", "SHORT"}
  /\ OutsideResult.signal \in {"LONG", "SHORT"}
  /\ OutsideResult.confidence < KillZoneResult.confidence

\* C10: after the kill-zone weighting, in the PREMIUM zone (price position
\* > 0.5) the bullish score becomes exactly 70% of its value and the bearish
\* score is unchanged; in the DISCOUNT zone the bearish score becomes exactly
\* 70% and the bullish score is unchanged.
C10_ZonePenalty ==
  (Evaluated /\ LengthValid(df)) =>
    LET l == trace.locals
        position == signal_result.premium_discount.price_position
    IN  /\ QuotGt(position[1], position[2], 1, 2) =>
             /\ 10 * l.penalized_bull = 7 * l.weighted_bull
             /\ l.penalized_bear = l.weighted_bear
        /\ signal_result.premium_discount.zone = "DISCOUNT" =>
             /\ 10 * l.penalized_bear = 7 * l.weighted_bear
             /\ l.penalized_bull = l.weighted_bull

\* an evaluation in the PREMIUM zone with both scores positive
C10_Witness ==
  /\ Evaluated /\ LengthValid(df)
  /\ signal_result.premium_discount.zone = "PREMIUM"
  /\ trace.locals.weighted_bull > 0 /\ trace.locals.weighted_bear > 0
  /\ trace.locals.penalized_bull < trace.locals.weighted_bull

\* C11: the higher-timeframe adjustment multiplies the score of the
\* provisional direction by 1.1 when the bias is aligned with it and by 0.8
\* when the bias opposes it, and leaves the other score unchanged; without a
\* higher-timeframe frame, with a NEUTRAL bias or with a NEUTRAL provisional
\* direction both scores are unchanged.
C11_HtfAdjustment ==
  (Evaluated /\ LengthValid(df)) =>
    LET l == trace.locals
        bull == signal_result.bullish_score
        bear == signal_result.bearish_score
        bias == signal_result.htf_bias.bias
        given == htf_df # NoFrame
    IN  /\ (given /\ Provisional = "LONG" /\ bias = "BULLISH") =>
             (10 * bull = 11 * l.penalized_bull /\ bear = l.penalized_bear)
        /\ (given /\ Provisional = "LONG" /\ bias = "BEARISH") =>
             (10 * bull = 8 * l.penalized_bull /\ bear = l.penalized_bear)
        /\ (given /\ Provisional = "SHORT" /\ bias = "BEARISH") =>
             (10 * bear = 11 * l.penalized_bear /\ bull = l.penalized_bull)
        /\ (given /\ Provisional = "SHORT" /\ bias = "BULLISH") =>
             (10 * bear = 8 * l.penalized_bear /\ bull = l.penalized_bull)
        /\ (~ given \/ bias = "NEUTRAL" \/ Provisional = "NEUTRAL") =>
             (bull = l.penalized_bull /\ bear = l.penalized_bear)

\* a provisional SHORT opposed by a BULLISH bias: the bearish score is cut by a
\* fifth and the positive bullish score is left as it was
C11_Witness ==
  /\ Evaluated /\ LengthValid(df) /\ htf_df # NoFrame
  /\ Provisional = "SHORT" /\ signal_result.htf_bias.bias = "BULLISH"
  /\ signal_result.bearish_score < trace.locals.penalized_bear
  /\ signal_result.bullish_score = trace.locals.penalized_bull
  /\ signal_result.bullish_score > 0

\* the names under which the rules record bullish and bearish points
BullishObDetails == {"OB_OTE_KILLZONE", "OB_OTE", "OB_BULLISH"}

BearishObDetails == {"OB_OTE_KILLZONE_BEAR", "OB_OTE_BEAR", "OB_BEARISH"}

BullishDetails ==
  BullishObDetails \cup {"CHOCH_BULLISH", "FVG_DISCOUNT", "FVG_BULLISH", "LIQ_SWEEP_BULL",
                         "BOS_BULLISH", "DISPLACEMENT_BULL"}

\* the points recorded in a breakdown under the given names, in order
PointsUnder(breakdown, names) ==
  LET kept == SelectSeq(breakdown, LAMBDA e : e.k \in names)
  IN  [i \in 1..Len(kept) |-> kept[i].v]

\* the swing range of the last 60 bars of a frame
SwingHighOf(d) == HighMax(d, Max2(0, Len0(d) - 60), Len0(d))

SwingLowOf(d) == LowMin(d, Max2(0, Len0(d) - 60), Len0(d))

\* the last close p of the frame is within 1.5% of the 62%, 70.5%, 79% or 50%
\* retracement of the swing range: |p - level| / p < 0.015
PriceAtOte(d) ==
  LET p == Bar(d, Len0(d) - 1).close
      lo == SwingLowOf(d)
      hi == SwingHighOf(d)
  IN  /\ p > 0
      /\ \E f \in {620, 705, 790, 500} :
            Abs(1000 * p - (1000 * lo + f * (hi - lo))) * 200 < 3000 * p

\* the last bar of the frame opens inside a kill zone (New York time)
LastBarInKillZone(d) ==
  LET hour == (Bar(d, Len0(d) - 1).ts + 19) % 24
  IN  hour \in (2..4) \cup (7..9) \cup (13..15) \cup (20..23)

\* the points a contributing order block adds
ObPoints(d) ==
  IF PriceAtOte(d) /\ LastBarInKillZone(d) THEN 12
  ELSE IF PriceAtOte(d) THEN 9 ELSE 6

\* C12: at most one bullish and at most one bearish order block contribute in
\* one evaluation; a contributing block adds to its own direction's score 12
\* points when the price is within 1.5% of an OTE level and the last bar is in
\* a kill zone, 9 points when at an OTE level outside every kill zone, and 6
\* points otherwise.
C12_OrderBlockPoints ==
  (Evaluated /\ LengthValid(df)) =>
    LET bull == PointsUnder(signal_result.confluence_breakdown, BullishObDetails)
        bear == PointsUnder(signal_result.confluence_breakdown, BearishObDetails)
        all_bull == PointsUnder(signal_result.confluence_breakdown, BullishDetails)
        all == PointsUnder(signal_result.confluence_breakdown,
                           Keys(signal_result.confluence_breakdown))
    IN  /\ Len(bull) <= 1 /\ Len(bear) <= 1
        /\ \A i \in DOMAIN bull : bull[i] = ObPoints(df)
        /\ \A i \in DOMAIN bear : bear[i] = ObPoints(df)
        /\ Len(bull) = 1 <=> "bullish_ob" \in Keys(signal_result.active_zones)
        /\ Len(bear) = 1 <=> "bearish_ob" \in Keys(signal_result.active_zones)
        /\ trace.locals.raw_bull = SumOver(all_bull, 1, Len(all_bull) + 1)
        /\ trace.locals.raw_bull + trace.locals.raw_bear = SumOver(all, 1, Len(all) + 1)

\* an evaluation outside every kill zone in which a bullish and a bearish order
\* block both contribute, 9 points each
C12_Witness ==
  /\ Evaluated /\ LengthValid(df)
  /\ ~ LastBarInKillZone(df)
  /\ PointsUnder(signal_result.confluence_breakdown, BullishObDetails) = <<9>>
  /\ PointsUnder(signal_result.confluence_breakdown, BearishObDetails) = <<9>>

\* check_price_near_zone has been called
NearCalled == call # None /\ call.fn = "check_price_near_zone"

\* low - b <= p <= high + b for a buffer b given as 50 * b
WithinBuffer(p, low, high, b50) ==
  50 * p >= 50 * low - b50 /\ 50 * p <= 50 * high + b50

\* C13 as stated: the proximity test accepts a price p for a zone [low, high]
\* iff low - b <= p <= high + b, where b is the larger of 2% of the zone's
\* range and 2% of the price.
C13_BufferIsLarger ==
  NearCalled =>
    (returned.value <=>
       WithinBuffer(call.current_price, call.zone_low, call.zone_high,
                    Max2(call.zone_high - call.zone_low, call.current_price)))

\* C13 amended: the buffer b is 2% of the zone's range when the range is
\* positive, and 2% of the price otherwise.
C13_BufferIsRangeElsePrice ==
  NearCalled =>
    (returned.value <=>
       WithinBuffer(call.current_price, call.zone_low, call.zone_high,
                    IF call.zone_high - call.zone_low > 0
                      THEN call.zone_high - call.zone_low
                      ELSE call.current_price))

\* a price 1% below the low of a zone of positive range: inside the band that
\* 2% of the price would give, outside the band of 2% of the range, rejected
C13_Witness ==
  /\ NearCalled
  /\ call.zone_high > call.zone_low
  /\ 100 * call.current_price = 99 * call.zone_low
  /\ 50 * call.current_price < 50 * call.zone_low - (call.zone_high - call.zone_low)
  /\ returned.value = FALSE

\* the order blocks of one type that generate_signal detected within the
\* lookback window of 60 bars (current index minus anchor index <= 60)
BlocksInWindow(type) ==
  {o \in {signal_result.all_indicators.order_blocks[i] :
            i \in DOMAIN signal_result.all_indicators.order_blocks} :
     o.type = type /\ (Len0(df) - 1) - o.start_idx <= 60}

\* those of them that pass the proximity test against the current price
PassingBlocks(type) ==
  {o \in BlocksInWindow(type) :
     WithinBuffer(signal_result.current_price, o.low, o.high,
                  IF o.high - o.low > 0 THEN o.high - o.low
                  ELSE signal_result.current_price)}

\* no passing block is more recent than o (later candle and later confirmation)
MostRecentPassing(o, type) ==
  /\ o \in PassingBlocks(type)
  /\ ~ \E q \in PassingBlocks(type) : q.start_idx > o.start_idx /\ q.end_idx > o.end_idx

\* C14: for each direction, whenever an order block of that direction within
\* the lookback window passes the proximity test, the rule adds points for
\* that direction and the block recorded in active_zones is the most recent
\* one that passes.
C14_NearestOrderBlock ==
  (Evaluated /\ LengthValid(df)) =>
    /\ PassingBlocks("bullish_ob") # {} =>
         /\ PointsUnder(signal_result.confluence_breakdown, BullishObDetails) # <<>>
         /\ "bullish_ob" \in Keys(signal_result.active_zones)
         /\ MostRecentPassing(Get(signal_result.active_zones, "bullish_ob")[1], "bullish_ob")
    /\ PassingBlocks("bearish_ob") # {} =>
         /\ PointsUnder(signal_result.confluence_breakdown, BearishObDetails) # <<>>
         /\ "bearish_ob" \in Keys(signal_result.active_zones)
         /\ MostRecentPassing(Get(signal_result.active_zones, "bearish_ob")[1], "bearish_ob")

BullishFvgDetails == {"FVG_DISCOUNT", "FVG_BULLISH"}

BearishFvgDetails == {"FVG_PREMIUM", "FVG_BEARISH"}

\* the gaps of one type that generate_signal detected within the lookback
\* window of 60 bars, in detection order
GapsInWindow(type) ==
  SelectSeq(signal_result.all_indicators.fair_value_gaps,
            LAMBDA g : g.type = type /\ (Len0(df) - 1) - g.start_idx <= 60)

\* the current price lies inside the band [gap_low, gap_high] of the gap
InsideBand(g) ==
  g.gap_low <= signal_result.current_price /\ signal_result.current_price <= g.gap_high

\* the price is below gap_high and above 95% of gap_low (bullish gap), or
\* above gap_low and below 105% of gap_high (bearish gap)
InsideWidenedBand(g) ==
  IF g.type = "bullish_fvg"
    THEN /\ signal_result.current_price < g.gap_high
         /\ 100 * signal_result.current_price > 95 * g.gap_low
    ELSE /\ signal_result.current_price > g.gap_low
         /\ 100 * signal_result.current_price < 105 * g.gap_high

\* the points the rule adds for a gap of the type in the current zone
GapPoints(type) ==
  IF \/ type = "bullish_fvg" /\ signal_result.premium_discount.zone = "DISCOUNT"
     \/ type = "bearish_fvg" /\ signal_result.premium_discount.zone = "PREMIUM"
    THEN 9 ELSE 4

\* C15 as stated: the fair-value-gap rule adds points for a direction only
\* when the current price lies inside the band [gap_low, gap_high] of a
\* same-direction gap within the lookback window; it then adds 9 points for a
\* bullish gap in DISCOUNT or a bearish gap in PREMIUM and 4 points otherwise,
\* at most once per direction.
C15_GapContainsPrice ==
  (Evaluated /\ LengthValid(df)) =>
    \A side \in {<<"bullish_fvg", BullishFvgDetails>>, <<"bearish_fvg", BearishFvgDetails>>} :
      LET points == PointsUnder(signal_result.confluence_breakdown, side[2])
          gaps == GapsInWindow(side[1])
      IN  /\ Len(points) <= 1
          /\ Len(points) = 1 =>
               /\ \E i \in DOMAIN gaps : InsideBand(gaps[i])
               /\ points[1] = GapPoints(side[1])

\* C15 amended: the rule adds points for a direction exactly when, for one of
\* the first two same-direction gaps of the lookback window in detection
\* order, the price is below gap_high and above 95% of gap_low (bullish) or
\* above gap_low and below 105% of gap_high (bearish); it then adds 9 or 4
\* points as stated, once, and records the first such gap in active_zones.
C15_GapNearPrice ==
  (Evaluated /\ LengthValid(df)) =>
    \A side \in {<<"bullish_fvg", BullishFvgDetails>>, <<"bearish_fvg", BearishFvgDetails>>} :
      LET points == PointsUnder(signal_result.confluence_breakdown, side[2])
          gaps == Head2(GapsInWindow(side[1]), 2)
          hits == {i \in DOMAIN gaps : InsideWidenedBand(gaps[i])}
      IN  /\ Len(points) <= 1
          /\ Len(points) = 1 <=> hits # {}
          /\ Len(points) = 1 =>
               /\ points[1] = GapPoints(side[1])
               /\ side[1] \in Keys(signal_result.active_zones)
               /\ Get(signal_result.active_zones, side[1]) = <<gaps[SetMin(hits)]>>

\* a bullish gap that lies wholly above the price adds 9 points in DISCOUNT
C15_Witness ==
  /\ Evaluated /\ LengthValid(df)
  /\ PointsUnder(signal_result.confluence_breakdown, BullishFvgDetails) = <<9>>
  /\ signal_result.premium_discount.zone = "DISCOUNT"
  /\ "bullish_fvg" \in Keys(signal_result.active_zones)
  /\ Get(signal_result.active_zones, "bullish_fvg")[1].gap_low > signal_result.current_price

\* the entry levels of the result are entry e, stop sl and targets tp1, tp2,
\* each given multiplied by 100
LevelsAre(e, sl, tp1, tp2) ==
  /\ Keys(signal_result.entry_levels) = {"entry", "stop_loss", "take_profit1", "take_profit2"}
  /\ Len(signal_result.entry_levels) = 4
  /\ Get(signal_result.entry_levels, "entry") = e
  /\ Get(signal_result.entry_levels, "stop_loss") = sl
  /\ Get(signal_result.entry_levels, "take_profit1") = tp1
  /\ Get(signal_result.entry_levels, "take_profit2") = tp2

\* the active order block of a type, when there is one
HasBlock(type) == type \in Keys(signal_result.active_zones)

ActiveBlock(type) == Get(signal_result.active_zones, type)[1]

\* C16: for LONG (SHORT) with an active bullish (bearish) order block, entry
\* is the block's low (high), stop is entry -2% (+2%), target1 entry +3% (-3%)
\* and target2 entry +5% (-5%); without such a block entry is the current
\* price, stop the lookback swing low (high), target1 the price +3% (-3%) and
\* target2 the lookback swing high (low); for NEUTRAL there are no entry levels.
C16_EntryLevels ==
  (Evaluated /\ LengthValid(df)) =>
    LET price == signal_result.current_price
    IN  /\ (signal_result.signal = "LONG" /\ HasBlock("bullish_ob")) =>
             LET e == ActiveBlock("bullish_ob").low
             IN  LevelsAre(100 * e, 98 * e, 103 * e, 105 * e)
        /\ (signal_result.signal = "SHORT" /\ HasBlock("bearish_ob")) =>
             LET e == ActiveBlock("bearish_ob").high
             IN  LevelsAre(100 * e, 102 * e, 97 * e, 95 * e)
        /\ (signal_result.signal = "LONG" /\ ~ HasBlock("bullish_ob")) =>
             LevelsAre(100 * price, 100 * SwingLowOf(df), 103 * price, 100 * SwingHighOf(df))
        /\ (signal_result.signal = "SHORT" /\ ~ HasBlock("bearish_ob")) =>
             LevelsAre(100 * price, 100 * SwingHighOf(df), 97 * price, 100 * SwingLowOf(df))
        /\ signal_result.signal = "NEUTRAL" => signal_result.entry_levels = <<>>

\* a SHORT signal with an active bearish order block, the stop above the entry
C16_Witness ==
  /\ Evaluated /\ LengthValid(df)
  /\ signal_result.signal = "SHORT" /\ HasBlock("bearish_ob")
  /\ Get(signal_result.entry_levels, "entry") = 100 * ActiveBlock("bearish_ob").high
  /\ Get(signal_result.entry_levels, "stop_loss") > Get(signal_result.entry_levels, "entry")

\* the order blocks and the displacements that generate_signal detected
DetectedBlocks ==
  {signal_result.all_indicators.order_blocks[i] :
     i \in DOMAIN signal_result.all_indicators.order_blocks}

DetectedDisplacements ==
  {signal_result.all_indicators.displacements[i] :
     i \in DOMAIN signal_result.all_indicators.displacements}

\* C17: a bar whose previous close is zero produces no order block and no
\* displacement record, and no returned order block or displacement carries a
\* strength or magnitude divided by zero (infinite or undefined).
C17_ZeroCloseGuarded ==
  (Evaluated /\ LengthValid(df)) =>
    /\ \A o \in DetectedBlocks :
         Bar(df, o.end_idx - 1).close # 0 /\ o.strength[2] # 0
    /\ \A x \in DetectedDisplacements :
         Bar(df, x.idx - 1).close # 0 /\ x.magnitude[2] # 0

\* the confidence band documented for the tier of a score
Band(score) ==
  CASE Tier(score) = 1 -> 0..30
    [] Tier(score) = 2 -> 30..60
    [] Tier(score) = 3 -> 60..80
    [] Tier(score) = 4 -> 80..100

\* C18: the confidence stays inside the band documented for the tier of the
\* winning score (below 6: 0-30, [6,13): 30-60, [13,21): 60-80, 21 or more:
\* 80-100) for every score reachable after the kill-zone, premium/discount
\* and higher-timeframe multipliers, so that of two evaluations the one with
\* the larger winning score never has the smaller confidence.
C18_ConfidenceInBand ==
  (Evaluated /\ LengthValid(df)) =>
    /\ signal_result.confidence \in Band(Winning(signal_result))
    /\ (previous # None /\ LengthValid(previous.df)
         /\ Winning(previous.result) <= Winning(signal_result))
          => previous.result.confidence <= signal_result.confidence

\* get_htf_bias has been called
HtfCalled == call # None /\ call.fn = "get_htf_bias"

\* the frame is missing or has fewer than 20 bars
TooShortForBias(h) == h = NoFrame \/ Len0(h) < 20

\* the bias that the structure counts (each bar from the sixth on against the
\* five bars before it) and the mean of the closes give for the bars w
StructureBias(w) ==
  LET n == Len0(w)
      later == PyRange(5, n)
      hh == Cardinality({i \in later : Bar(w, i).high > HighMax(w, i - 5, i)})
      hl == Cardinality({i \in later : Bar(w, i).low > LowMin(w, i - 5, i)})
      lh == Cardinality({i \in later : Bar(w, i).high < HighMax(w, i - 5, i)})
      ll == Cardinality({i \in later : Bar(w, i).low < LowMin(w, i - 5, i)})
      closes == [k \in 0..(n - 1) |-> Bar(w, k).close]
      above == n * Bar(w, n - 1).close > SumOver(closes, 0, n)
  IN  IF hh + hl > lh + ll /\ above THEN "BULLISH"
      ELSE IF lh + ll > hh + hl /\ ~ above THEN "BEARISH"
      ELSE "NEUTRAL"

\* what the claim says of every call, the bias being taken from the bars w
BiasContract(w) ==
  /\ (/\ returned.value.bias = "NEUTRAL" /\ returned.value.strength = 0
       /\ returned.value.reasoning = "Insufficient HTF data")
        <=> TooShortForBias(call.df)
  /\ ~ TooShortForBias(call.df) =>
       /\ returned.value.bias \in {"BULLISH", "BEARISH", "NEUTRAL"}
       /\ returned.value.strength \in 0..100
       /\ returned.value.bias = StructureBias(w)

\* C19 as stated: get_htf_bias returns NEUTRAL, strength 0 and the
\* insufficient-data reason exactly for a missing frame or one of fewer than
\* 20 bars; for 20 or more bars it returns BULLISH, BEARISH or NEUTRAL with an
\* integer strength in 0..100, from the price against the mean of the last 20
\* closes and the structure counts over the same 20 bars.
C19_BiasFromLastTwenty ==
  HtfCalled => BiasContract(IF TooShortForBias(call.df) THEN <<>> ELSE LastN(call.df, 20))

\* the same contract with the bars the code takes: the last min(20, N - 1) of
\* the N bars of the frame (the last 19 for a frame of exactly 20 bars)
C19_BiasFromLookback ==
  HtfCalled =>
    BiasContract(IF TooShortForBias(call.df) THEN <<>>
                 ELSE LastN(call.df, Min2(20, Len0(call.df) - 1)))

\* a frame of exactly 20 bars whose first bar decides: BULLISH from its last
\* 19 bars, not from all 20
FirstBarDecides ==
  /\ HtfCalled /\ call.df # NoFrame /\ Len0(call.df) = 20
  /\ returned.value.bias = "BULLISH"
  /\ StructureBias(call.df) # "BULLISH"
  /\ returned.value.strength \in 51..100

\* calculate_premium_discount_zone has been called
ZoneCalled == call # None /\ call.fn = "calculate_premium_discount_zone"

\* the bars the range is taken from: the last lookback bars of the frame
RangeBars == LastN(call.df, call.lookback)

\* the range has no height: the highest high of its bars is their lowest low
FlatRange ==
  \A i, j \in 1..Len(RangeBars) : RangeBars[i].high = RangeBars[j].low

\* the detailed zone of the position num / den, den > 0
DetailedZoneOf(num, den) ==
  IF 10 * num > 7 * den THEN "EXTREME_PREMIUM"
  ELSE IF 2 * num > den THEN "PREMIUM"
  ELSE IF 10 * num >= 3 * den THEN "DISCOUNT"
  ELSE "EXTREME_DISCOUNT"

\* C20: calculate_premium_discount_zone, on a frame satisfying the bar
\* invariants, returns a price position in [0,1], which is 0.5 when the range
\* high equals the range low; the zone is PREMIUM exactly for a position above
\* 0.5 and DISCOUNT otherwise; the detailed zone is EXTREME_PREMIUM above 0.7,
\* PREMIUM in (0.5, 0.7], DISCOUNT in [0.3, 0.5], EXTREME_DISCOUNT below 0.3.
C20_PremiumDiscountZone ==
  ZoneCalled =>
    LET r == returned.value
        num == r.price_position[1]
        den == r.price_position[2]
    IN  /\ den > 0 /\ 0 <= num /\ num <= den
        /\ FlatRange => 2 * num = den
        /\ r.range_high = r.range_low <=> FlatRange
        /\ r.zone = (IF 2 * num > den THEN "PREMIUM" ELSE "DISCOUNT")
        /\ r.detailed_zone = DetailedZoneOf(num, den)
        /\ r.zone = "PREMIUM" <=> r.detailed_zone \in {"PREMIUM", "EXTREME_PREMIUM"}

\* a call on a range of no height, two bars long, answered with position 0.5
\* in the DISCOUNT zone
C20_Witness ==
  /\ ZoneCalled /\ FlatRange /\ Len(RangeBars) = 2
  /\ 2 * returned.value.price_position[1] = returned.value.price_position[2]
  /\ returned.value.zone = "DISCOUNT" /\ returned.value.detailed_zone = "DISCOUNT"

\* detect_session_liquidity has been called
SessionsCalled == call # None /\ call.fn = "detect_session_liquidity"

\* the bars of the call whose New York hour lies in lo..hi
BarsInHours(lo, hi) ==
  {k \in 1..Len(call.df) : EstHour(call.df[k].ts) \in lo..hi}

\* the levels of a session are the extremes of exactly the bars K
LevelsOver(level, K) ==
  /\ level.high = (IF K = {} THEN <<>> ELSE <<SetMax({call.df[k].high : k \in K})>>)
  /\ level.low = (IF K = {} THEN <<>> ELSE <<SetMin({call.df[k].low : k \in K})>>)

BlocksCalled == call # None /\ call.fn = "detect_order_blocks"

\* the close of bar i (0-based) of the frame of the call
CloseAt(i) == call.df[i + 1].close

\* bar i closes more than 1.5% above (dir = 1) or below (dir = -1) the close
\* before it
MovesBy(i, dir) ==
  IF dir = 1 THEN 1000 * CloseAt(i) > 1015 * CloseAt(i - 1)
  ELSE 1000 * CloseAt(i) < 985 * CloseAt(i - 1)

\* the bars of the other colour in the window before bar i: bearish bars
\* before a move up, bullish bars before a move down
OppositeBefore(i, dir) ==
  {j \in (Max2(i - 20, 0) + 1)..(i - 1) :
     IF dir = 1 THEN call.df[j + 1].close < call.df[j + 1].open
     ELSE call.df[j + 1].close > call.df[j + 1].open}

\* the positions in the output of the blocks of the move at bar i
BlocksOfMove(i, dir) ==
  {k \in 1..Len(returned.value) :
     /\ returned.value[k].end_idx = i
     /\ returned.value[k].type = (IF dir = 1 THEN "bullish_ob" ELSE "bearish_ob")}

\* the output has, for the move at bar i, one block at the nearest bar of the
\* other colour in the window, with its band and the move as strength, and
\* none when the window has no such bar
MoveAnswered(i, dir) ==
  LET js == OppositeBefore(i, dir)
      ks == BlocksOfMove(i, dir)
  IN  IF js = {} THEN ks = {}
      ELSE /\ Cardinality(ks) = 1
           /\ \A k \in ks :
                /\ returned.value[k].start_idx = SetMax(js)
                /\ returned.value[k].high = call.df[SetMax(js) + 1].high
                /\ returned.value[k].low = call.df[SetMax(js) + 1].low
                /\ returned.value[k].strength[1] * CloseAt(i - 1)
                     = Abs(CloseAt(i) - CloseAt(i - 1)) * returned.value[k].strength[2]

\* C22: detect_order_blocks with its default parameters answers every bar
\* i >= 1 that closes more than 1.5% above the previous close with exactly one
\* bullish order block at the nearest bearish bar of the lookback window (its
\* band, the displacement as strength) and with none when the window has no
\* bearish bar, and symmetrically for moves down; so a bearish bar at index 5
\* and a +2% close at index 10 give one bullish block anchored at index 5.
C22_OrderBlockPerMove ==
  BlocksCalled =>
    \A i \in 1..(Len(call.df) - 1) : \A dir \in {-1, 1} :
      MovesBy(i, dir) => MoveAnswered(i, dir)

\* the same for the bars the loop visits, i >= 20
OrderBlockPerVisitedMove ==
  BlocksCalled =>
    /\ \A i \in 20..(Len(call.df) - 1) : \A dir \in {-1, 1} :
         MovesBy(i, dir) => MoveAnswered(i, dir)
    /\ \A k \in 1..Len(returned.value) :
         /\ returned.value[k].end_idx \in 20..(Len(call.df) - 1)
         /\ \E dir \in {-1, 1} :
              MovesBy(returned.value[k].end_idx, dir)
                /\ k \in BlocksOfMove(returned.value[k].end_idx, dir)

\* the example of the claim: a bearish bar at index 5, a +2% close at index
\* 10, and no block in the output
MoveBeforeLookback ==
  /\ BlocksCalled /\ Len(call.df) = 11
  /\ MovesBy(10, 1) /\ OppositeBefore(10, 1) = {5}
  /\ returned.value = <<>>

\* a move at a visited bar answered with one block
VisitedMoveAnswered ==
  /\ BlocksCalled /\ Len(returned.value) = 1
  /\ returned.value[1].end_idx = 25 /\ returned.value[1].start_idx = 20
  /\ returned.value[1].type = "bullish_ob"

\* detect_fair_value_gaps has been called
GapsCalled == call # None /\ call.fn = "detect_fair_value_gaps"

\* the output has a gap of the type t over the bars i-2..i with the band
\* [lo, hi]
GapEmitted(t, i, lo, hi) ==
  \E k \in 1..Len(returned.value) :
    /\ returned.value[k].type = t
    /\ returned.value[k].start_idx = i - 2 /\ returned.value[k].end_idx = i
    /\ returned.value[k].gap_low = lo /\ returned.value[k].gap_high = hi

\* C23: detect_fair_value_gaps emits at most one record per window (i-2, i-1,
\* i): a bullish gap [high[i-2], low[i]] exactly when high[i-2] < low[i], a
\* bearish gap [high[i], low[i-2]] exactly when low[i-2] > high[i], anchored at
\* i-2; on bars with low <= high the two never hold together, and every record
\* has gap_low < gap_high.
C23_OneGapPerWindow ==
  GapsCalled =>
    /\ \A i \in 2..(Len(call.df) - 1) :
         LET first == call.df[i - 1]
             third == call.df[i + 1]
         IN  /\ Cardinality({k \in 1..Len(returned.value) :
                               returned.value[k].end_idx = i}) <= 1
             /\ GapEmitted("bullish_fvg", i, first.high, third.low)
                  <=> first.high < third.low
             /\ GapEmitted("bearish_fvg", i, third.high, first.low)
                  <=> first.low > third.high
             /\ ~ (first.high < third.low /\ first.low > third.high)
    /\ \A k \in 1..Len(returned.value) :
         /\ returned.value[k].gap_low < returned.value[k].gap_high
         /\ returned.value[k].start_idx = returned.value[k].end_idx - 2
         /\ returned.value[k].end_idx \in 2..(Len(call.df) - 1)
         /\ returned.value[k].type \in {"bullish_fvg", "bearish_fvg"}

\* the first bar has its high at 100, the third its low at 105: one bullish
\* gap [100, 105] anchored at the first bar and nothing else
C23_Witness ==
  /\ GapsCalled /\ Len(call.df) = 3
  /\ call.df[1].high = 100 /\ call.df[3].low = 105
  /\ Len(returned.value) = 1
  /\ returned.value[1].type = "bullish_fvg" /\ returned.value[1].start_idx = 0
  /\ returned.value[1].gap_low = 100 /\ returned.value[1].gap_high = 105

\* detect_market_structure_shift has been called
ShiftsCalled == call # None /\ call.fn = "detect_market_structure_shift"

\* bar i (0-based) of the frame of the call
CalledBar(i) == call.df[i + 1]

\* the confirmed swing highs and lows of the frame of the call: the bars with
\* five bars on each side that hold the extreme of those eleven bars
ConfirmedHighs ==
  {s \in 5..(Len(call.df) - 6) :
     \A k \in (s - 5)..(s + 5) : CalledBar(k).high <= CalledBar(s).high}

ConfirmedLows ==
  {s \in 5..(Len(call.df) - 6) :
     \A k \in (s - 5)..(s + 5) : CalledBar(k).low >= CalledBar(s).low}

\* the confirmed swings before bar i that the close of bar i breaks
BrokenHighs(i) ==
  {s \in ConfirmedHighs : s < i /\ CalledBar(s).high < CalledBar(i).close}

BrokenLows(i) ==
  {s \in ConfirmedLows : s < i /\ CalledBar(s).low > CalledBar(i).close}

\* the positions in the output of the breaks of a direction at bar i
BreaksAt(i, dir) ==
  {k \in 1..Len(returned.value) :
     returned.value[k].idx = i /\ returned.value[k].direction = dir}

\* C24: detect_market_structure_shift emits for each bar i at most one bullish
\* and at most one bearish BOS; a bullish BOS exactly when some confirmed swing
\* high of index < i has a price strictly below close[i], its broken_level
\* being the price of the lowest-index such swing high; symmetrically for
\* swing lows and the bearish BOS.
C24_FirstBrokenSwing ==
  ShiftsCalled =>
    \A i \in 0..(Len(call.df) - 1) :
      /\ Cardinality(BreaksAt(i, "bullish")) = (IF BrokenHighs(i) = {} THEN 0 ELSE 1)
      /\ Cardinality(BreaksAt(i, "bearish")) = (IF BrokenLows(i) = {} THEN 0 ELSE 1)
      /\ \A k \in BreaksAt(i, "bullish") :
           returned.value[k].broken_level = CalledBar(SetMin(BrokenHighs(i))).high
      /\ \A k \in BreaksAt(i, "bearish") :
           returned.value[k].broken_level = CalledBar(SetMin(BrokenLows(i))).low

\* a bar that breaks two confirmed swing highs of different prices: the break
\* names the earlier, lower one, not the one nearest to the close
C24_Witness ==
  /\ ShiftsCalled
  /\ \E k \in 1..Len(returned.value) :
       /\ returned.value[k].direction = "bullish"
       /\ \E s \in BrokenHighs(returned.value[k].idx) :
            CalledBar(s).high > returned.value[k].broken_level

\* C29: on bars with low <= close <= high every BOS that
\* detect_market_structure_shift emits at a bar i is against a confirmed swing
\* at an index s with i > s + swing_length: no break is reported inside the
\* five bars after the swing that were needed to confirm it.
C29_BreakAfterConfirmation ==
  ShiftsCalled =>
    \A k \in 1..Len(returned.value) :
      LET i == returned.value[k].idx
          broken == IF returned.value[k].direction = "bullish"
                      THEN BrokenHighs(i) ELSE BrokenLows(i)
      IN  /\ broken # {}
          /\ i > SetMin(broken) + 5
          /\ \A s \in broken : i > s + 5

\* a break reported nine bars after the swing high it breaks, a bar of the
\* five after the swing having reached the price of the swing without
\* closing above it
C29_Witness ==
  /\ ShiftsCalled
  /\ \E k \in 1..Len(returned.value) :
       LET i == returned.value[k].idx
       IN  /\ returned.value[k].direction = "bullish"
           /\ BrokenHighs(i) # {}
           /\ i = SetMin(BrokenHighs(i)) + 9
           /\ \E j \in (SetMin(BrokenHighs(i)) + 1)..(SetMin(BrokenHighs(i)) + 5) :
                CalledBar(j).high = CalledBar(SetMin(BrokenHighs(i))).high

\* get_all_ict_indicators, detect_choch have been called
IndicatorsCalled == call # None /\ call.fn = "get_all_ict_indicators"

ChochCalled == call # None /\ call.fn = "detect_choch"

\* the anchor indices of a list of occurrences, in list order: idx, or
\* start_idx for the patterns that have no idx
Anchors(xs) ==
  [k \in 1..Len(xs) |->
     IF "idx" \in DOMAIN xs[k] THEN xs[k].idx ELSE xs[k].start_idx]

\* the indices at which the patterns were detected: end_idx for the ranged
\* patterns, idx for the others
DetectedAt(xs) ==
  [k \in 1..Len(xs) |->
     IF "end_idx" \in DOMAIN xs[k] THEN xs[k].end_idx ELSE xs[k].idx]

NonDecreasing(ns) == \A k \in 1..(Len(ns) - 1) : ns[k] <= ns[k + 1]

\* the blocks of one type, in list order
BlocksOfType(xs, t) == SelectSeq(xs, LAMBDA x : x.type = t)

\* the lists of the detectors other than detect_order_blocks are in the order
\* of their anchor indices
OthersInAnchorOrder ==
  /\ IndicatorsCalled =>
       /\ NonDecreasing(Anchors(returned.value.fair_value_gaps))
       /\ NonDecreasing(Anchors(returned.value.liquidity_sweeps))
       /\ NonDecreasing(Anchors(returned.value.market_structure))
       /\ NonDecreasing(Anchors(returned.value.displacements))
       /\ NonDecreasing(Anchors(returned.value.bpr))
       /\ NonDecreasing(Anchors(returned.value.volume_imbalances))
  /\ ChochCalled => NonDecreasing(Anchors(returned.value))

\* C25 as stated: every detector returns its occurrences with the anchor
\* index used for recency filtering (idx, or start_idx for ranged patterns)
\* non-decreasing along the returned list.
C25_AnchorOrder ==
  /\ OthersInAnchorOrder
  /\ IndicatorsCalled => NonDecreasing(Anchors(returned.value.order_blocks))

\* C25 amended: every detector returns its occurrences in the order of the
\* bars at which they are detected; the anchor index is non-decreasing along
\* the list of every detector but detect_order_blocks, whose list has its
\* anchor start_idx non-decreasing among the blocks of one type only.
C25_OrderWithinType ==
  /\ OthersInAnchorOrder
  /\ IndicatorsCalled =>
       /\ NonDecreasing(DetectedAt(returned.value.order_blocks))
       /\ NonDecreasing(DetectedAt(returned.value.fair_value_gaps))
       /\ NonDecreasing(DetectedAt(returned.value.bpr))
       /\ \A t \in {"bullish_ob", "bearish_ob"} :
            NonDecreasing(Anchors(BlocksOfType(returned.value.order_blocks, t)))

\* a bullish block anchored at a bearish bar followed in the list by a bearish
\* block anchored at the bullish bar before it
C25_Witness ==
  /\ IndicatorsCalled
  /\ Len(returned.value.order_blocks) = 2
  /\ returned.value.order_blocks[1].type = "bullish_ob"
  /\ returned.value.order_blocks[2].type = "bearish_ob"
  /\ returned.value.order_blocks[2].start_idx < returned.value.order_blocks[1].start_idx
  /\ returned.value.order_blocks[2].end_idx > returned.value.order_blocks[1].end_idx

\* generate_signal has been called on its own
SignalCalled == call # None /\ call.fn = "generate_signal"

\* the swing points detect_choch can use on the frame of the call: the bars of
\* index 5..49 with five bars on each side that hold the extreme of the eleven
UsableHighs == {s \in ConfirmedHighs : s <= 49}

UsableLows == {s \in ConfirmedLows : s <= 49}

\* the CHOCH record c breaks a usable swing s with idx - 50 < s < idx - 5
BreaksUsableSwing(c) ==
  IF c.direction = "bullish"
    THEN \E s \in UsableLows :
           /\ c.idx - 50 < s /\ s < c.idx - 5
           /\ CalledBar(s).low = c.broken_level /\ CalledBar(c.idx).close < c.broken_level
    ELSE \E s \in UsableHighs :
           /\ c.idx - 50 < s /\ s < c.idx - 5
           /\ CalledBar(s).high = c.broken_level /\ CalledBar(c.idx).close > c.broken_level

\* C27: detect_choch as the aggregator calls it (swing_length 5, lookback 50)
\* reports a CHOCH only at a bar i with 50 <= i <= len - 3 that breaks a swing
\* collected at an index s of 5..49 with i - 50 < s < i - 5; so every CHOCH has
\* an index of at most 98, and on a frame of 110 or more bars no CHOCH lies in
\* the last 10 bars and the CHOCH rule of generate_signal adds no points.
C27_ChochWindow ==
  /\ ChochCalled =>
       \A k \in 1..Len(returned.value) :
         /\ returned.value[k].idx >= 50
         /\ returned.value[k].idx <= Len(call.df) - 3
         /\ returned.value[k].idx <= 98
         /\ BreaksUsableSwing(returned.value[k])
         /\ Len(call.df) >= 110 => (Len(call.df) - 1) - returned.value[k].idx > 10
  /\ (SignalCalled /\ Len(call.df) >= 110) =>
       PointsUnder(returned.value.confluence_breakdown,
                   {"CHOCH_BULLISH", "CHOCH_BEARISH"}) = <<>>

\* a frame of 110 bars with a CHOCH at index 98, against the swing low at
\* index 49
C27_Witness ==
  /\ ChochCalled /\ Len(call.df) = 110
  /\ \E k \in 1..Len(returned.value) :
       /\ returned.value[k].idx = 98 /\ returned.value[k].direction = "bullish"
       /\ returned.value[k].broken_level = CalledBar(49).low
       /\ 49 \in UsableLows

\* C26: in every result of generate_signal the signal is NEUTRAL if and only
\* if the confidence is 0 if and only if entry_levels is empty, and every LONG
\* or SHORT result has a confidence of at least 30 (none in 1..29), a
\* direction being reported only for a score of at least 5.
C26_OutputsAgree ==
  Evaluated =>
    /\ signal_result.signal = "NEUTRAL" <=> signal_result.confidence = 0
    /\ signal_result.confidence = 0 <=> signal_result.entry_levels = <<>>
    /\ signal_result.signal \in {"LONG", "SHORT"} =>
         /\ signal_result.confidence >= 30
         /\ Winning(signal_result) >= 5 * ScoreScale
    /\ signal_result.confidence \notin 1..29

\* a direction reported on a score between 5 and 6, with confidence 30
C26_Witness ==
  /\ Evaluated /\ LengthValid(df)
  /\ signal_result.signal \in {"LONG", "SHORT"}
  /\ Winning(signal_result) < 6 * ScoreScale
  /\ signal_result.confidence = 30
  /\ signal_result.entry_levels # <<>>

\* C28: whenever backtest_signal returns a result and not None, generate_signal
\* was run on a truncated frame of at least 50 bars, so the signal of the
\* result is never the "Insufficient data" fallback.
C28_EnoughHistory ==
  backtest_result # None =>
    /\ Len0(HistoricalFrame(df, TargetIdx)) >= 50
    /\ backtest_result.reasoning # InsufficientData.reasoning

\* a result of backtest_signal for a reference bar with fewer than 50 bars up
\* to it: NEUTRAL, confidence 0, the reasoning of the fallback, shown as WRONG
ShortHistoryTested ==
  /\ backtest_result # None
  /\ TargetIdx + 1 < 50
  /\ backtest_result.signal = "NEUTRAL" /\ backtest_result.confidence = 0
  /\ backtest_result.reasoning = InsufficientData.reasoning
  /\ banner = "WRONG"

\* with 50 bars or more up to the reference bar the result never carries the
\* fallback
LongHistoryScored ==
  (backtest_result # None /\ TargetIdx + 1 >= 50) =>
    backtest_result.reasoning # InsufficientData.reasoning

\* the four suggested levels of the returned signal, each multiplied by 100
LevelOf(name) == Get(signal_result.entry_levels, name)

\* a LONG or SHORT signal on a frame of 50 bars or more with positive prices
Directed(signal) ==
  /\ Evaluated /\ LengthValid(df)
  /\ signal_result.signal = signal
  /\ \A i \in 0..(Len0(df) - 1) : Bar(df, i).low > 0

\* C30: for every LONG result of generate_signal on a frame with positive
\* prices stop_loss <= entry < take_profit1 <= take_profit2, and for every
\* SHORT result take_profit2 <= take_profit1 < entry <= stop_loss, with the
\* entry anchored at an order block or at the current price.
C30_LevelsOrdered ==
  /\ Directed("LONG") =>
       /\ LevelOf("stop_loss") <= LevelOf("entry")
       /\ LevelOf("entry") < LevelOf("take_profit1")
       /\ LevelOf("take_profit1") <= LevelOf("take_profit2")
  /\ Directed("SHORT") =>
       /\ LevelOf("take_profit2") <= LevelOf("take_profit1")
       /\ LevelOf("take_profit1") < LevelOf("entry")
       /\ LevelOf("entry") <= LevelOf("stop_loss")

\* the levels anchored at an order block are ordered, strictly
BlockLevelsOrdered ==
  /\ (Directed("LONG") /\ HasBlock("bullish_ob")) =>
       /\ LevelOf("stop_loss") < LevelOf("entry")
       /\ LevelOf("entry") < LevelOf("take_profit1")
       /\ LevelOf("take_profit1") < LevelOf("take_profit2")
  /\ (Directed("SHORT") /\ HasBlock("bearish_ob")) =>
       /\ LevelOf("take_profit2") < LevelOf("take_profit1")
       /\ LevelOf("take_profit1") < LevelOf("entry")
       /\ LevelOf("entry") < LevelOf("stop_loss")

\* the levels anchored at the current price keep the stop, the entry and the
\* first target in order, and the second target on the side of the first
PriceLevelsOrdered ==
  /\ (Directed("LONG") /\ ~ HasBlock("bullish_ob")) =>
       /\ LevelOf("stop_loss") <= LevelOf("entry")
       /\ LevelOf("entry") < LevelOf("take_profit1")
       /\ LevelOf("entry") <= LevelOf("take_profit2")
  /\ (Directed("SHORT") /\ ~ HasBlock("bearish_ob")) =>
       /\ LevelOf("take_profit2") <= LevelOf("entry")
       /\ LevelOf("take_profit1") < LevelOf("entry")
       /\ LevelOf("entry") <= LevelOf("stop_loss")

\* a LONG signal anchored at the current price whose second target, the swing
\* high, is below the first, the price plus 3%
SecondTargetBelowFirst ==
  /\ Directed("LONG") /\ ~ HasBlock("bullish_ob")
  /\ LevelOf("take_profit2") < LevelOf("take_profit1")

====
